---- MODULE Spec2Model ----
(***************************************************************************)
(* Model of nic-roaming: the control channel that reads and changes the    *)
(* link-level address of a network interface through ioctl on a local      *)
(* datagram socket, and the routing-socket monitor that turns kernel       *)
(* routing messages into NicEvent items.                                   *)
(*                                                                         *)
(* 32-bit words that do not fit a model integer are kept as <<hi, lo>>     *)
(* pairs of 16-bit halves.  Byte buffers are sequences of 0..255.          *)
(***************************************************************************)
EXTENDS Integers, Sequences, FiniteSets, TLC

VARIABLES
    box_sys,      \* which Sys implementation BoxSys holds: "LibcSys" | "MockSys"
    kv,           \* the kernel's interface table: IfName -> address or NoAddr
    errno,        \* the thread's errno cell (*libc::__error())
    pc,           \* position of the get_lladdr / set_lladdr call in progress
    op,           \* the call in progress: function and arguments
    ifreq,        \* the call's stack-allocated interface request record
    open_socket,  \* the live LibcOpenSocket, or NoSocket
    io_result,    \* result of OpenSocket::get_lladdr / set_lladdr
    result,       \* result handed to the caller
    log,          \* Sys calls made by the call in progress, in order
    diag,         \* diagnostics written to stderr by the call in progress
    lastOkSet,    \* history: per name, address of the last set_lladdr that returned Ok
    prev,         \* history: the previous completed call and its result
    mon,          \* the NicMonitor: "Open", or "Panicked" once next() has unwound
    item,         \* what the last next() produced
    prev_item,    \* history: what the next() before it produced
    reads,        \* number of reads performed on the monitor's socket
    last_read,    \* history: what the last read delivered
    seen_eof,     \* history: some read of this monitor returned zero bytes
    calls,        \* number of next() calls made so far
    str_value,    \* the text handed to a parser (IfName, LinkLevelAddress)
    parsed,       \* what the parser returned for that text
    rendered,     \* the String a name, an address or an error was formatted to
    src_octets,   \* the byte array a LinkLevelAddress was built from
    ioc_word,     \* the last ioctl command word the encoder computed, with its inputs
    ifr,          \* an interface request record a caller owns
    ifr_before,   \* history: that record before the last operation on it
    ifr_call,     \* history: the last operation on that record, with its argument
    args,         \* the command line: std::env::args().nth(1), nth(2), nth(3)
    main_pc,      \* position of main: "start", "call", "loop", "exited", "panicked"
    main_ret,     \* what main returned
    stderr        \* the lines main has written with eprintln!

vars == <<box_sys, kv, errno, pc, op, ifreq, open_socket, io_result, result,
          log, diag, lastOkSet, prev, mon, item, prev_item, reads, last_read,
          seen_eof, calls, str_value, parsed, rendered, src_octets, ioc_word, ifr,
          ifr_before, ifr_call, args, main_pc, main_ret, stderr>>

chanVars == <<box_sys, kv, errno, pc, op, ifreq, open_socket, io_result,
              result, log, diag, lastOkSet, prev>>

monVars == <<mon, item, prev_item, reads, last_read, seen_eof, calls>>

textVars == <<str_value, parsed, rendered, src_octets>>

recVars == <<ifr, ifr_before, ifr_call>>

cliVars == <<args, main_pc, main_ret, stderr>>

pureVars == <<str_value, parsed, rendered, src_octets, ioc_word, ifr, ifr_before,
              ifr_call>>

----------------------------------------------------------------------------
(* Bit operations on naturals *)

RECURSIVE BitAnd(_, _)
BitAnd(a, b) ==
    IF a = 0 \/ b = 0 THEN 0
    ELSE (IF a % 2 = 1 /\ b % 2 = 1 THEN 1 ELSE 0) + 2 * BitAnd(a \div 2, b \div 2)

RECURSIVE BitOr(_, _)
BitOr(a, b) ==
    IF a = 0 THEN b
    ELSE IF b = 0 THEN a
    ELSE (IF a % 2 = 1 \/ b % 2 = 1 THEN 1 ELSE 0) + 2 * BitOr(a \div 2, b \div 2)

Zeros(n) == [i \in 1..n |-> 0]

----------------------------------------------------------------------------
(* ioctl command encoder: sys.rs, mod ioccom *)

I == 105
IOCPARM_MASK == 8191            \* 0x1fff
IOC_OUT == <<16384, 0>>         \* 0x40000000
IOC_IN == <<32768, 0>>          \* 0x80000000
IOC_INOUT == <<BitOr(IOC_IN[1], IOC_OUT[1]), BitOr(IOC_IN[2], IOC_OUT[2])>>
IFREQ_SIZE == 32

\* variant: the length is not masked
ioc_unmasked(inout, group, num, len) ==
    LET low == BitOr(group * 256, num)
    IN  <<BitOr(BitOr(inout[1], len), low \div 65536),
          BitOr(inout[2], low % 65536)>>

\* inout | ((len & IOCPARM_MASK) << 16) | (group << 8) | num
ioc(inout, group, num, len) ==
    LET low == BitOr(group * 256, num)
    IN  <<BitOr(BitOr(inout[1], BitAnd(len, IOCPARM_MASK)), low \div 65536),
          BitOr(inout[2], low % 65536)>>

iow(group, num, len) == ioc(IOC_IN, group, num, len)

iorw(group, num, len) == ioc(IOC_INOUT, group, num, len)

SIOCGIFLLADDR == iorw(I, 158, IFREQ_SIZE)

SIOCSIFLLADDR == iow(I, 60, IFREQ_SIZE)

----------------------------------------------------------------------------
(* IfName: ifname.rs *)

IF_NAME_SIZE == 16
IF_NAME_MIN == 3
IF_NAME_MAX == IF_NAME_SIZE - 1

\* variant: the embedded-NUL check comes before the length checks
IfName_try_from_nul_first(value) ==
    IF \E i \in 1..Len(value) : value[i] = 0
    THEN [tag |-> "InvalidCString", value |-> value]
    ELSE IF Len(value) < IF_NAME_MIN THEN [tag |-> "TooSmall", value |-> value]
    ELSE IF Len(value) > IF_NAME_MAX THEN [tag |-> "TooLarge", value |-> value]
    ELSE [tag |-> "Ok",
          val |-> [i \in 1..IF_NAME_SIZE |->
                      IF i <= Len(value) THEN value[i] ELSE 0]]

\* TryFrom<String> for IfName; a text is a sequence of bytes
IfName_try_from(value) ==
    IF Len(value) < IF_NAME_MIN THEN [tag |-> "TooSmall", value |-> value]
    ELSE IF Len(value) > IF_NAME_MAX THEN [tag |-> "TooLarge", value |-> value]
    ELSE IF \E i \in 1..Len(value) : value[i] = 0
         THEN [tag |-> "InvalidCString", value |-> value]
    ELSE [tag |-> "Ok",
          val |-> [i \in 1..IF_NAME_SIZE |->
                      IF i <= Len(value) THEN value[i] ELSE 0]]

\* Debug (and Display) for ifname Error: the struct name and the fields
IfName_Error_fmt(error) ==
    IF error.tag = "TooSmall"
    THEN [struct |-> "IfName::TooSmallError", value |-> error.value,
          len |-> Len(error.value), bound |-> "min", limit |-> IF_NAME_MIN]
    ELSE IF error.tag = "TooLarge"
    THEN [struct |-> "IfName::TooLargeError", value |-> error.value,
          len |-> Len(error.value), bound |-> "max", limit |-> IF_NAME_MAX]
    ELSE [struct |-> "IfName::InvalidCStringError", value |-> error.value,
          len |-> Len(error.value), bound |-> "none", limit |-> 0]

\* lowercase hexadecimal digit
HexDigit(d) == IF d < 10 THEN 48 + d ELSE 87 + d

\* <[u8]>::escape_ascii for one byte
escape_ascii(b) ==
    IF b = 9 THEN <<92, 116>>
    ELSE IF b = 13 THEN <<92, 114>>
    ELSE IF b = 10 THEN <<92, 110>>
    ELSE IF b = 39 THEN <<92, 39>>
    ELSE IF b = 34 THEN <<92, 34>>
    ELSE IF b = 92 THEN <<92, 92>>
    ELSE IF b >= 32 /\ b <= 126 THEN <<b>>
    ELSE <<92, 120, HexDigit(b \div 16), HexDigit(b % 16)>>

RECURSIVE EscapeAll(_)
EscapeAll(bytes) ==
    IF bytes = <<>> THEN <<>>
    ELSE escape_ascii(Head(bytes)) \o EscapeAll(Tail(bytes))

\* CStr::from_ptr(..).to_bytes(): the bytes before the first NUL (every
\* IfName that try_from builds holds one)
CStrBytes(buf) ==
    LET nuls == {i \in 1..Len(buf) : buf[i] = 0}
    IN  IF nuls = {} THEN buf
        ELSE SubSeq(buf, 1, (CHOOSE i \in nuls : \A j \in nuls : i <= j) - 1)

\* From<&IfName> for String
String_from_IfName(ifname) == EscapeAll(CStrBytes(ifname))

----------------------------------------------------------------------------
(* LinkLevelAddress: lladdr.rs.  A text is a sequence of bytes.             *)

OCTETS_SIZE == 6

\* format!("{:02x}", u): two lowercase digits
Hex02(u) == <<HexDigit(u \div 16), HexDigit(u % 16)>>

\* variant: "{:x}", the octets are not zero-padded
String_from_LinkLevelAddress_unpadded(a) ==
    LET h(u) == IF u < 16 THEN <<HexDigit(u)>> ELSE Hex02(u)
    IN  h(a[1]) \o <<58>> \o h(a[2]) \o <<58>> \o h(a[3]) \o <<58>>
        \o h(a[4]) \o <<58>> \o h(a[5]) \o <<58>> \o h(a[6])

\* From<&LinkLevelAddress> for String
String_from_LinkLevelAddress(a) ==
    Hex02(a[1]) \o <<58>> \o Hex02(a[2]) \o <<58>> \o Hex02(a[3]) \o <<58>>
    \o Hex02(a[4]) \o <<58>> \o Hex02(a[5]) \o <<58>> \o Hex02(a[6])

\* str::splitn(n, ':'): at most n pieces, the last one holding the rest
RECURSIVE splitn(_, _)
splitn(n, str) ==
    LET colons == {i \in 1..Len(str) : str[i] = 58}
    IN  IF n <= 1 \/ colons = {} THEN <<str>>
        ELSE LET c == CHOOSE i \in colons : \A j \in colons : i <= j
             IN  <<SubSeq(str, 1, c - 1)>>
                 \o splitn(n - 1, SubSeq(str, c + 1, Len(str)))

\* char::to_digit(16), -1 for None
to_digit(c) ==
    IF c >= 48 /\ c <= 57 THEN c - 48
    ELSE IF c >= 97 /\ c <= 102 THEN c - 87
    ELSE IF c >= 65 /\ c <= 70 THEN c - 55
    ELSE -1

\* the digit loop of u8::from_str_radix: checked (more than two digits) or not
RECURSIVE Digits16(_, _, _)
Digits16(digits, acc, checked) ==
    IF digits = <<>> THEN [tag |-> "Ok", val |-> acc]
    ELSE LET x == to_digit(Head(digits))
         IN  IF x < 0 THEN [tag |-> "Err", kind |-> "InvalidDigit"]
             ELSE IF checked /\ acc * 16 + x > 255
                  THEN [tag |-> "Err", kind |-> "PosOverflow"]
             ELSE Digits16(Tail(digits), acc * 16 + x, checked)

\* u8::from_str_radix(src, 16)
u8_from_str_radix(src) ==
    IF src = <<>> THEN [tag |-> "Err", kind |-> "Empty"]
    ELSE IF Len(src) = 1 /\ src[1] \in {43, 45}
         THEN [tag |-> "Err", kind |-> "InvalidDigit"]
    ELSE LET digits == IF src[1] = 43 THEN Tail(src) ELSE src
         IN  Digits16(digits, 0, Len(digits) > 2)

\* the octets parsed so far, or the first octet that does not parse
RECURSIVE CollectOctets(_, _, _)
CollectOctets(value, pieces, acc) ==
    IF pieces = <<>> THEN [tag |-> "Ok", val |-> acc]
    ELSE LET r == u8_from_str_radix(Head(pieces))
         IN  IF r.tag = "Err"
             THEN [tag |-> "InvalidOctet", value |-> value, octet |-> Head(pieces),
                   error |-> r.kind]
             ELSE CollectOctets(value, Tail(pieces), Append(acc, r.val))

\* TryFrom<&str> for OctetsVec
OctetsVec_try_from(value) ==
    CollectOctets(value, splitn(OCTETS_SIZE, value), <<>>)

\* variant: the number of tokens is checked before any token is parsed
LinkLevelAddress_from_str_count_first(value) ==
    LET pieces == splitn(Len(value) + 1, value)
    IN  IF Len(pieces) # OCTETS_SIZE
        THEN [tag |-> "WrongNumberOfOctets", value |-> value,
              value_octets |-> Len(pieces)]
        ELSE OctetsVec_try_from(value)

\* FromStr for LinkLevelAddress
LinkLevelAddress_from_str(value) ==
    LET octets == OctetsVec_try_from(value)
    IN  IF octets.tag # "Ok" THEN octets
        ELSE IF Len(octets.val) # OCTETS_SIZE
             THEN [tag |-> "WrongNumberOfOctets", value |-> value,
                   value_octets |-> Len(octets.val)]
        ELSE octets

----------------------------------------------------------------------------
(* Interface request record: types/ifreq.rs.  Layout of libc::ifreq on     *)
(* macOS: ifr_name[16], then the address union seen as a sockaddr          *)
(* (sa_len, sa_family, sa_data[14]).                                       *)

SA_DATA_SIZE == 14

ifreq_new == [ifr_name |-> Zeros(IF_NAME_SIZE), sa_len |-> 0, sa_family |-> 0,
              sa_data |-> Zeros(SA_DATA_SIZE)]

\* variant: the name is copied as a C string, up to and with its first NUL
change_name_as_cstr(rec, ifname) ==
    LET nuls == {i \in 1..Len(ifname) : ifname[i] = 0}
        n == IF nuls = {} THEN Len(ifname)
             ELSE CHOOSE i \in nuls : \A j \in nuls : i <= j
    IN  [rec EXCEPT !.ifr_name =
            [i \in 1..IF_NAME_SIZE |->
                IF i <= n THEN ifname[i] ELSE rec.ifr_name[i]]]

\* copies ifname.len() bytes into ifr_name
change_name(rec, ifname) ==
    [rec EXCEPT !.ifr_name =
        [i \in 1..IF_NAME_SIZE |->
            IF i <= Len(ifname) THEN ifname[i] ELSE rec.ifr_name[i]]]

\* copies lladdr.len() bytes to the start of sa_data and sets sa_len
change_lladdr(rec, lladdr) ==
    [rec EXCEPT !.sa_data =
                    [i \in 1..SA_DATA_SIZE |->
                        IF i <= Len(lladdr) THEN lladdr[i] ELSE rec.sa_data[i]],
                !.sa_len = Len(lladdr)]

with_name(rec, ifname) == change_name(rec, ifname)

\* variant: the address is not stored in the record
with_lladdr_skipped(rec, lladdr) == rec

with_lladdr(rec, lladdr) == change_lladdr(rec, lladdr)

name(rec) == rec.ifr_name

\* variant: the address is read two bytes into sa_data
lladdr_shifted(rec) == SubSeq(rec.sa_data, 3, OCTETS_SIZE + 2)

lladdr(rec) == SubSeq(rec.sa_data, 1, OCTETS_SIZE)

----------------------------------------------------------------------------
(* Input domains of the model *)

NameTexts == {<<101, 110, 48>>, <<101, 110, 49>>}      \* "en0", "en1"

Names == {IfName_try_from(t).val : t \in NameTexts}

Addrs == {<<0, 17, 34, 51, 68, 85>>, <<170, 187, 204, 221, 238, 255>>}

NoAddr == <<>>

SocketRets == {-2, -1, 0, 3}

IoctlRets == {-1, 0, 1}

CloseRets == {-1, 0, 1}

AF_LOCAL == 1
SOCK_DGRAM == 2
EPERM == 1
EBADF == 9

Errnos == {EPERM, EBADF}

----------------------------------------------------------------------------
(* Sys: sys.rs.  LibcSys forwards to the kernel, whose calls may fail with  *)
(* any return value and which sets errno when a call fails.  MockSys is the *)
(* simulated kernel of net/src/macos/sys.rs.                                *)

SocketReturns(sys) == IF sys = "MockSys" THEN {0} ELSE SocketRets

IoctlFaults(sys) == IF sys = "MockSys" THEN {0} ELSE IoctlRets

CloseReturns(sys) == IF sys = "MockSys" THEN {0} ELSE CloseRets

\* the errno cell after a call that returned ret, e being the kernel's error
KernelErrno(sys, cell, ret, e) ==
    IF sys = "LibcSys" /\ ret < 0 THEN e ELSE cell

Sys_errno(sys, cell) == IF sys = "MockSys" THEN EPERM ELSE cell

\* ioctl on the interface table: fault # 0 is a kernel failure unrelated to
\* the table; otherwise get reads the table into the record and set updates it
Sys_ioctl(sys, table, cell, fd, request, rec, fault, e) ==
    LET ifname == name(rec)
        fail(ret) == [ret |-> ret, rec |-> rec, kv |-> table,
                      errno |-> KernelErrno(sys, cell, ret, e), wrote |-> NoAddr]
    IN  IF fault # 0 THEN fail(fault)
        ELSE IF request = SIOCGIFLLADDR THEN
            IF ifname \in DOMAIN table /\ table[ifname] # NoAddr
            THEN [ret |-> 0, rec |-> change_lladdr(rec, table[ifname]),
                  kv |-> table, errno |-> cell, wrote |-> table[ifname]]
            ELSE fail(-1)
        ELSE IF request = SIOCSIFLLADDR THEN
            IF ifname \in DOMAIN table
            THEN [ret |-> 0, rec |-> rec,
                  kv |-> [table EXCEPT ![ifname] = lladdr(rec)],
                  errno |-> cell, wrote |-> NoAddr]
            ELSE fail(-1)
        ELSE fail(-1)

----------------------------------------------------------------------------
(* Socket layer: socket.rs *)

NoSocket == [tag |-> "NoSocket", fd |-> -1]

Unit == <<>>

OkUnit == [tag |-> "Ok", val |-> Unit]

NoResult == [tag |-> "None"]

SocketCall(ret) ==
    [call |-> "socket", args |-> <<AF_LOCAL, SOCK_DGRAM, 0>>, ret |-> ret]

ErrnoCall(e) == [call |-> "errno", ret |-> e]

CloseCall(fd, ret) == [call |-> "close", fd |-> fd, ret |-> ret]

\* variant: descriptor 0 is taken for a failure
open_local_dgram_positive_only(sys, fd, cell) ==
    IF fd > 0
    THEN [res |-> OkUnit, socket |-> [tag |-> "LibcOpenSocket", fd |-> fd],
          calls |-> <<SocketCall(fd)>>]
    ELSE LET e == Sys_errno(sys, cell)
         IN  [res |-> [tag |-> "OpenLocalDgram", ret |-> fd, errno |-> e],
              socket |-> NoSocket,
              calls |-> <<SocketCall(fd), ErrnoCall(e)>>]

\* LibcSocket::open_local_dgram, fd being what socket() returned and cell the
\* errno cell after that call
open_local_dgram(sys, fd, cell) ==
    IF fd >= 0
    THEN [res |-> OkUnit, socket |-> [tag |-> "LibcOpenSocket", fd |-> fd],
          calls |-> <<SocketCall(fd)>>]
    ELSE LET e == Sys_errno(sys, cell)
         IN  [res |-> [tag |-> "OpenLocalDgram", ret |-> fd, errno |-> e],
              socket |-> NoSocket,
              calls |-> <<SocketCall(fd), ErrnoCall(e)>>]

IoctlCall(fd, request, arg, k) ==
    [call |-> "ioctl", fd |-> fd, request |-> request, arg |-> arg,
     out |-> k.rec, ret |-> k.ret, wrote |-> k.wrote, errno |-> k.errno]

\* variant: get_lladdr issues the set command
LibcOpenSocket_get_lladdr_set_command(sock, sys, table, cell, arg, fault, e) ==
    LET fd == sock.fd
        k == Sys_ioctl(sys, table, cell, fd, SIOCSIFLLADDR, arg, fault, e)
        c == IoctlCall(fd, SIOCSIFLLADDR, arg, k)
    IN  IF k.ret = 0
        THEN [res |-> OkUnit, k |-> k, calls |-> <<c>>]
        ELSE LET ifname == name(k.rec)
                 en == Sys_errno(sys, k.errno)
             IN  [res |-> [tag |-> "GetLinkLevelAddress", fd |-> fd,
                           ifname |-> ifname, ret |-> k.ret, errno |-> en],
                  k |-> k, calls |-> <<c, ErrnoCall(en)>>]

\* LibcOpenSocket::get_lladdr
\* variant: only a negative ioctl return counts as a failure
LibcOpenSocket_get_lladdr_negative_only(sock, sys, table, cell, arg, fault, e) ==
    LET fd == sock.fd
        k == Sys_ioctl(sys, table, cell, fd, SIOCGIFLLADDR, arg, fault, e)
        c == IoctlCall(fd, SIOCGIFLLADDR, arg, k)
    IN  IF k.ret >= 0
        THEN [res |-> OkUnit, k |-> k, calls |-> <<c>>]
        ELSE LET ifname == name(k.rec)
                 en == Sys_errno(sys, k.errno)
             IN  [res |-> [tag |-> "GetLinkLevelAddress", fd |-> fd,
                           ifname |-> ifname, ret |-> k.ret, errno |-> en],
                  k |-> k, calls |-> <<c, ErrnoCall(en)>>]

LibcOpenSocket_get_lladdr(sock, sys, table, cell, arg, fault, e) ==
    LET fd == sock.fd
        k == Sys_ioctl(sys, table, cell, fd, SIOCGIFLLADDR, arg, fault, e)
        c == IoctlCall(fd, SIOCGIFLLADDR, arg, k)
    IN  IF k.ret = 0
        THEN [res |-> OkUnit, k |-> k, calls |-> <<c>>]
        ELSE LET ifname == name(k.rec)
                 en == Sys_errno(sys, k.errno)
             IN  [res |-> [tag |-> "GetLinkLevelAddress", fd |-> fd,
                           ifname |-> ifname, ret |-> k.ret, errno |-> en],
                  k |-> k, calls |-> <<c, ErrnoCall(en)>>]

\* variant: errno is read before the ioctl is issued
LibcOpenSocket_set_lladdr_stale_errno(sock, sys, table, cell, arg, fault, e) ==
    LET fd == sock.fd
        en == Sys_errno(sys, cell)
        k == Sys_ioctl(sys, table, cell, fd, SIOCSIFLLADDR, arg, fault, e)
        c == IoctlCall(fd, SIOCSIFLLADDR, arg, k)
    IN  IF k.ret = 0
        THEN [res |-> OkUnit, k |-> k, calls |-> <<c>>]
        ELSE LET ifname == name(k.rec)
                 addr == lladdr(k.rec)
             IN  [res |-> [tag |-> "SetLinkLevelAddress", fd |-> fd,
                           ifname |-> ifname, lladdr |-> addr,
                           ret |-> k.ret, errno |-> en],
                  k |-> k, calls |-> <<c, ErrnoCall(en)>>]

\* LibcOpenSocket::set_lladdr
LibcOpenSocket_set_lladdr(sock, sys, table, cell, arg, fault, e) ==
    LET fd == sock.fd
        k == Sys_ioctl(sys, table, cell, fd, SIOCSIFLLADDR, arg, fault, e)
        c == IoctlCall(fd, SIOCSIFLLADDR, arg, k)
    IN  IF k.ret = 0
        THEN [res |-> OkUnit, k |-> k, calls |-> <<c>>]
        ELSE LET ifname == name(k.rec)
                 addr == lladdr(k.rec)
                 en == Sys_errno(sys, k.errno)
             IN  [res |-> [tag |-> "SetLinkLevelAddress", fd |-> fd,
                           ifname |-> ifname, lladdr |-> addr,
                           ret |-> k.ret, errno |-> en],
                  k |-> k, calls |-> <<c, ErrnoCall(en)>>]

\* variant: the descriptor is never closed
LibcOpenSocket_drop_leak(sock, sys, ret, cell) ==
    [calls |-> <<>>, diag |-> <<>>]

\* Drop for LibcOpenSocket: ret is what close(fd) returned, cell the errno
\* cell after it
LibcOpenSocket_drop(sock, sys, ret, cell) ==
    LET fd == sock.fd
    IN  IF ret = 0
        THEN [calls |-> <<CloseCall(fd, ret)>>, diag |-> <<>>]
        ELSE LET e == Sys_errno(sys, cell)
             IN  [calls |-> <<CloseCall(fd, ret), ErrnoCall(e)>>,
                  diag |-> <<[tag |-> "Close", fd |-> fd, ret |-> ret,
                              errno |-> e]>>]

\* nic::get_lladdr after the socket statement: Ok(ifreq.lladdr()) or the error
get_lladdr_result(res, rec) ==
    IF res.tag = "Ok" THEN [tag |-> "Ok", val |-> lladdr(rec)] ELSE res

\* nic::set_lladdr returns the socket statement's result
set_lladdr_result(res, rec) == res

----------------------------------------------------------------------------
(* Control channel: nic.rs get_lladdr / set_lladdr, one action per blocking *)
(* step of the call                                                         *)

NoOp == [f |-> "none", ifname |-> <<>>, lladdr |-> <<>>]

NoPrev == [f |-> "none", ifname |-> <<>>, lladdr |-> <<>>, result |-> NoResult]

InitChan ==
    /\ box_sys \in {"LibcSys", "MockSys"}
    /\ kv \in [Names -> Addrs \cup {NoAddr}]
    /\ errno = 0
    /\ pc = "idle"
    /\ op = NoOp
    /\ ifreq = ifreq_new
    /\ open_socket = NoSocket
    /\ io_result = NoResult
    /\ result = NoResult
    /\ log = <<>>
    /\ diag = <<>>
    /\ lastOkSet = [n \in Names |-> NoAddr]
    /\ prev = NoPrev

\* nic::get_lladdr is entered: let mut ifreq = ifreq::new().with_name(ifname)
GetLladdrCall(n) ==
    /\ pc = "idle"
    /\ pc' = "open"
    /\ op' = [f |-> "get", ifname |-> n, lladdr |-> <<>>]
    /\ ifreq' = with_name(ifreq_new, n)
    /\ UNCHANGED <<box_sys, kv, errno, open_socket, io_result, result, log,
                   diag, lastOkSet, prev>>

\* nic::set_lladdr is entered:
\* let mut ifreq = ifreq::new().with_name(ifname).with_lladdr(lladdr)
SetLladdrCall(n, a) ==
    /\ pc = "idle"
    /\ pc' = "open"
    /\ op' = [f |-> "set", ifname |-> n, lladdr |-> a]
    /\ ifreq' = with_lladdr(with_name(ifreq_new, n), a)
    /\ lastOkSet' = [lastOkSet EXCEPT ![n] = NoAddr]
    /\ UNCHANGED <<box_sys, kv, errno, open_socket, io_result, result, log,
                   diag, prev>>

\* socket::open_local_dgram()?
OpenLocalDgram ==
    /\ pc = "open"
    /\ \E fd \in SocketReturns(box_sys), e \in Errnos :
        LET cell == KernelErrno(box_sys, errno, fd, e)
            o == open_local_dgram(box_sys, fd, cell)
        IN  /\ errno' = cell
            /\ log' = log \o o.calls
            /\ open_socket' = o.socket
            /\ IF o.res.tag = "Ok"
               THEN pc' = "ioctl" /\ result' = result
               ELSE pc' = "done" /\ result' = o.res
    /\ UNCHANGED <<box_sys, kv, op, ifreq, io_result, diag, lastOkSet, prev>>

\* .get_lladdr(&mut ifreq) on the socket just opened
OpenSocketGetLladdr ==
    /\ pc = "ioctl"
    /\ op.f = "get"
    /\ \E fault \in IoctlFaults(box_sys), e \in Errnos :
        LET o == LibcOpenSocket_get_lladdr(open_socket, box_sys, kv, errno,
                                           ifreq, fault, e)
        IN  /\ kv' = o.k.kv
            /\ errno' = o.k.errno
            /\ ifreq' = o.k.rec
            /\ io_result' = o.res
            /\ log' = log \o o.calls
    /\ pc' = "drop"
    /\ UNCHANGED <<box_sys, op, open_socket, result, diag, lastOkSet, prev>>

\* .set_lladdr(&mut ifreq) on the socket just opened
OpenSocketSetLladdr ==
    /\ pc = "ioctl"
    /\ op.f = "set"
    /\ \E fault \in IoctlFaults(box_sys), e \in Errnos :
        LET o == LibcOpenSocket_set_lladdr(open_socket, box_sys, kv, errno,
                                           ifreq, fault, e)
        IN  /\ kv' = o.k.kv
            /\ errno' = o.k.errno
            /\ ifreq' = o.k.rec
            /\ io_result' = o.res
            /\ log' = log \o o.calls
    /\ pc' = "drop"
    /\ UNCHANGED <<box_sys, op, open_socket, result, diag, lastOkSet, prev>>

\* variant: a close failure replaces the call's result
Drop_close_error_returned ==
    /\ pc = "drop"
    /\ \E ret \in CloseReturns(box_sys), e \in Errnos :
        LET cell == KernelErrno(box_sys, errno, ret, e)
            o == LibcOpenSocket_drop(open_socket, box_sys, ret, cell)
        IN  /\ errno' = cell
            /\ log' = log \o o.calls
            /\ diag' = diag \o o.diag
            /\ result' = IF ret # 0 THEN o.diag[1]
                         ELSE IF op.f = "get"
                              THEN get_lladdr_result(io_result, ifreq)
                              ELSE set_lladdr_result(io_result, ifreq)
    /\ open_socket' = NoSocket
    /\ pc' = "done"
    /\ UNCHANGED <<box_sys, kv, op, ifreq, io_result, lastOkSet, prev>>

\* the temporary LibcOpenSocket is dropped at the end of the statement, then
\* the function's value is formed
Drop ==
    /\ pc = "drop"
    /\ \E ret \in CloseReturns(box_sys), e \in Errnos :
        LET cell == KernelErrno(box_sys, errno, ret, e)
            o == LibcOpenSocket_drop(open_socket, box_sys, ret, cell)
        IN  /\ errno' = cell
            /\ log' = log \o o.calls
            /\ diag' = diag \o o.diag
    /\ open_socket' = NoSocket
    /\ result' = IF op.f = "get" THEN get_lladdr_result(io_result, ifreq)
                 ELSE set_lladdr_result(io_result, ifreq)
    /\ pc' = "done"
    /\ UNCHANGED <<box_sys, kv, op, ifreq, io_result, lastOkSet, prev>>

\* the call returns to its caller; the locals go away
Return ==
    /\ pc = "done"
    /\ pc' = "idle"
    /\ prev' = [f |-> op.f, ifname |-> op.ifname, lladdr |-> op.lladdr,
                result |-> result]
    /\ lastOkSet' = IF op.f = "set" /\ result.tag = "Ok"
                    THEN [lastOkSet EXCEPT ![op.ifname] = op.lladdr]
                    ELSE lastOkSet
    /\ op' = NoOp
    /\ ifreq' = ifreq_new
    /\ io_result' = NoResult
    /\ result' = NoResult
    /\ log' = <<>>
    /\ diag' = <<>>
    /\ UNCHANGED <<box_sys, kv, errno, open_socket>>

NoItem == [tag |-> "NoItem"]

NoRead == [kind |-> "none", n |-> 0, e |-> 0]

InitMon ==
    /\ mon = "Open"
    /\ item = NoItem
    /\ prev_item = NoItem
    /\ reads = 0
    /\ last_read = NoRead
    /\ seen_eof = FALSE
    /\ calls = 0

NoText == <<>>

NoRequest == [inout |-> <<0, 0>>, group |-> 0, num |-> 0, len |-> 0, word |-> <<0, 0>>]

NoCall == [f |-> "none", arg |-> <<>>]

\* an absent command-line argument
NoArg == [tag |-> "None"]

\* no command is running
NoMain ==
    /\ args = [action |-> NoArg, ifname |-> NoArg, lladdr |-> NoArg]
    /\ main_pc = "none"
    /\ main_ret = [tag |-> "None"]
    /\ stderr = <<>>

\* nothing parsed, formatted or encoded yet, and a fresh record
InitPure ==
    /\ str_value = NoText
    /\ parsed = NoResult
    /\ rendered = NoResult
    /\ src_octets = NoAddr
    /\ ioc_word = NoRequest
    /\ ifr = ifreq_new
    /\ ifr_before = ifreq_new
    /\ ifr_call = NoCall
    /\ NoMain

Init == InitChan /\ InitMon /\ InitPure

Next ==
    \/ (\E n \in Names : GetLladdrCall(n)) /\ UNCHANGED <<monVars, pureVars, cliVars>>
    \/ (\E n \in Names, a \in Addrs : SetLladdrCall(n, a)) /\ UNCHANGED <<monVars, pureVars, cliVars>>
    \/ OpenLocalDgram /\ UNCHANGED <<monVars, pureVars, cliVars>>
    \/ OpenSocketGetLladdr /\ UNCHANGED <<monVars, pureVars, cliVars>>
    \/ OpenSocketSetLladdr /\ UNCHANGED <<monVars, pureVars, cliVars>>
    \/ Drop /\ UNCHANGED <<monVars, pureVars, cliVars>>
    \/ Return /\ UNCHANGED <<monVars, pureVars, cliVars>>

Spec == Init /\ [][Next]_vars

----------------------------------------------------------------------------
(* Properties of the control channel *)

IoctlIdx == {i \in DOMAIN log : log[i].call = "ioctl"}

CloseIdx == {i \in DOMAIN log : log[i].call = "close"}

SocketIdx == {i \in DOMAIN log : log[i].call = "socket"}

\* the record get_lladdr(n) is expected to pass: all zero but for the name
ZeroedRecordNamed(n) ==
    [ifr_name |-> n, sa_len |-> 0, sa_family |-> 0,
     sa_data |-> <<0, 0, 0, 0, 0, 0, 0, 0, 0, 0, 0, 0, 0, 0>>]

\* C1: when get_lladdr(n) has run and its ioctl returned 0, that ioctl was
\* the get command 0xc020699e issued on the descriptor socket(AF_LOCAL,
\* SOCK_DGRAM, 0) had just returned, its argument was a zeroed record holding
\* n in the name field, and the call returns Ok(a) for the address a the
\* kernel wrote into the record.
C1_GetReturnsKernelAddress ==
    (pc = "done" /\ op.f = "get") =>
        \A i \in IoctlIdx :
            log[i].ret = 0 =>
                /\ i = 2
                /\ log[1].call = "socket"
                /\ log[1].args = <<1, 2, 0>>
                /\ log[i].fd = log[1].ret
                /\ log[i].request = <<49184, 27038>>
                /\ log[i].arg = ZeroedRecordNamed(op.ifname)
                /\ log[i].wrote \in Addrs
                /\ result = [tag |-> "Ok", val |-> log[i].wrote]

C1_Witness ==
    /\ pc = "done"
    /\ op.f = "get"
    /\ box_sys = "LibcSys"
    /\ \E i \in IoctlIdx : log[i].ret = 0 /\ log[i].fd = 3
    /\ result.tag = "Ok"
    /\ result.val = <<170, 187, 204, 221, 238, 255>>

\* C2: in the simulated kernel, a get_lladdr(n) that follows a set_lladdr(n, a)
\* which returned Ok, with no set_lladdr on n in between, returns Ok(a); with
\* any kernel, if that get_lladdr returns Ok at all it returns Ok(a).
C2_SetThenGet ==
    (pc = "done" /\ op.f = "get" /\ lastOkSet[op.ifname] # NoAddr) =>
        /\ box_sys = "MockSys" => result.tag = "Ok"
        /\ result.tag = "Ok" => result.val = lastOkSet[op.ifname]

C2_Witness ==
    /\ pc = "done"
    /\ op.f = "get"
    /\ box_sys = "MockSys"
    /\ lastOkSet[op.ifname] = <<170, 187, 204, 221, 238, 255>>
    /\ result = [tag |-> "Ok", val |-> <<170, 187, 204, 221, 238, 255>>]

\* C3: two get_lladdr(n) calls in a row return the same value (in the
\* simulated kernel always, with any kernel whenever both return Ok), and no
\* step of a get_lladdr call changes the interface table.
C3_GetTwiceInv ==
    (pc = "done" /\ op.f = "get" /\ prev.f = "get" /\ prev.ifname = op.ifname) =>
        /\ box_sys = "MockSys" => result = prev.result
        /\ (result.tag = "Ok" /\ prev.result.tag = "Ok") => result = prev.result

C3_GetTwice == [] C3_GetTwiceInv /\ [][op.f = "get" => kv' = kv]_vars

C3_Witness ==
    /\ pc = "done"
    /\ op.f = "get"
    /\ prev.f = "get"
    /\ prev.ifname = op.ifname
    /\ prev.result.tag = "Ok"
    /\ result = prev.result

\* C4: the control descriptor exists only between the successful socket call
\* and the close of the same get_lladdr / set_lladdr call; when the call is
\* over, each descriptor a successful socket call returned has been closed
\* exactly once, after the ioctl, and nothing else has been closed.
C4_ClosedOnceInv ==
    /\ pc \in {"idle", "open", "done"} => open_socket = NoSocket
    /\ pc \in {"ioctl", "drop"} =>
        /\ open_socket.tag = "LibcOpenSocket"
        /\ open_socket.fd >= 0
        /\ open_socket.fd = log[1].ret
        /\ CloseIdx = {}
    /\ pc = "done" =>
        /\ Cardinality(SocketIdx) = 1
        /\ \A i \in SocketIdx :
            IF log[i].ret >= 0
            THEN /\ Cardinality(CloseIdx) = 1
                 /\ Cardinality(IoctlIdx) = 1
                 /\ \A j \in CloseIdx :
                        /\ log[j].fd = log[i].ret
                        /\ \A k \in IoctlIdx : i < k /\ k < j
            ELSE CloseIdx = {}

C4_ClosedOnce ==
    [] C4_ClosedOnceInv
    /\ [][open_socket' # open_socket =>
            \/ open_socket = NoSocket /\ pc = "open" /\ pc' = "ioctl"
            \/ open_socket' = NoSocket /\ pc = "drop" /\ pc' = "done"]_vars

C4_Witness ==
    /\ pc = "done"
    /\ \E k \in IoctlIdx : log[k].ret # 0
    /\ \E j \in CloseIdx : log[j].fd = 3 /\ log[j].ret = 0

\* C5: the call opens with socket(AF_LOCAL, SOCK_DGRAM, 0); the opening
\* succeeds (an ioctl follows on the returned descriptor) exactly when that
\* call returns a value >= 0, and when it returns r < 0 the call returns the
\* open error carrying r and the errno read right after, having issued
\* neither an ioctl nor a close.
C5_OpenError ==
    /\ pc \in {"ioctl", "drop"} => log[1].ret >= 0
    /\ pc = "done" =>
        /\ log[1].call = "socket"
        /\ log[1].args = <<1, 2, 0>>
        /\ IF log[1].ret >= 0
           THEN /\ result.tag # "OpenLocalDgram"
                /\ \E i \in IoctlIdx : log[i].fd = log[1].ret
           ELSE /\ Len(log) = 2
                /\ log[2].call = "errno"
                /\ box_sys = "LibcSys" => log[2].ret = errno
                /\ result = [tag |-> "OpenLocalDgram", ret |-> log[1].ret,
                             errno |-> log[2].ret]

C5_Witness ==
    /\ pc = "done"
    /\ op.f = "set"
    /\ result = [tag |-> "OpenLocalDgram", ret |-> -2, errno |-> 9]

\* the error a failed ioctl (entry i of the log) is expected to produce
ExpectedIoctlError(i) ==
    IF op.f = "get"
    THEN [tag |-> "GetLinkLevelAddress", fd |-> log[1].ret,
          ifname |-> op.ifname, ret |-> log[i].ret, errno |-> log[i + 1].ret]
    ELSE [tag |-> "SetLinkLevelAddress", fd |-> log[1].ret,
          ifname |-> op.ifname, lladdr |-> op.lladdr, ret |-> log[i].ret,
          errno |-> log[i + 1].ret]

\* C6: when the ioctl of a get_lladdr / set_lladdr call fails, the call
\* returns the typed error with the descriptor, the requested name (and
\* address for set), the ioctl's return value and the errno; that errno is
\* the one left by the ioctl, read before close is called, whatever errno
\* the close leaves behind.
C6_IoctlError ==
    pc = "done" =>
        \A i \in IoctlIdx :
            log[i].ret # 0 =>
                /\ log[i].fd = log[1].ret
                /\ log[i + 1].call = "errno"
                /\ box_sys = "LibcSys" => log[i + 1].ret = log[i].errno
                /\ \A j \in CloseIdx : j > i + 1
                /\ result = ExpectedIoctlError(i)

C6_Witness ==
    /\ pc = "done"
    /\ op.f = "set"
    /\ result.tag = "SetLinkLevelAddress"
    /\ result.ret = -1
    /\ result.errno = 9
    /\ \E j \in CloseIdx : log[j].ret = -1
    /\ errno = 1

\* the result the ioctl (entry i of the log) alone determines
ExpectedResult(i) ==
    IF log[i].ret = 0
    THEN IF op.f = "get" THEN [tag |-> "Ok", val |-> log[i].wrote]
         ELSE [tag |-> "Ok", val |-> <<>>]
    ELSE ExpectedIoctlError(i)

\* C7: whatever close returns, the call's result is the one the ioctl
\* determines (Ok, or the ioctl's error); a nonzero close return only adds
\* one Close diagnostic with the descriptor, the return value and the errno.
C7_CloseErrorSwallowed ==
    pc = "done" =>
        \A j \in CloseIdx :
            /\ \A i \in IoctlIdx : result = ExpectedResult(i)
            /\ IF log[j].ret = 0
               THEN diag = <<>>
               ELSE /\ log[j + 1].call = "errno"
                    /\ diag = <<[tag |-> "Close", fd |-> log[1].ret,
                                 ret |-> log[j].ret, errno |-> log[j + 1].ret]>>

C7_Witness ==
    /\ pc = "done"
    /\ op.f = "get"
    /\ result.tag = "Ok"
    /\ \E j \in CloseIdx : log[j].ret = 1
    /\ Len(diag) = 1

----------------------------------------------------------------------------
(* Routing messages: types/rtbuf.rs, rtmsghdr.rs, ifmamsghdr.rs,           *)
(* sockaddrdl.rs, defs/.  The 2048-byte read buffer is kept by the fields  *)
(* the kernel structures overlay on it: the 16-byte header (rt_msghdr and  *)
(* ifma_msghdr share rtm_msglen, rtm_version, rtm_type; ifma_msghdr adds   *)
(* ifmam_addrs) and, right after it, the array of 20-byte sockaddr_dl      *)
(* slots.                                                                  *)

RT_BUF_SIZE == 2048
HDR_SIZE == 16
SDL_SIZE == 20
SDL_DATA_SIZE == 12
RTM_VERSION == 5
RTAX_DST == 0
RTAX_MAX == 8
RTA_IFP == 16
AF_LINK == 18
IFT_ETHER == 6

ZeroSdl == [sdl_len |-> 0, sdl_family |-> 0, sdl_index |-> 0, sdl_type |-> 0,
            sdl_nlen |-> 0, sdl_alen |-> 0, sdl_slen |-> 0,
            sdl_data |-> Zeros(SDL_DATA_SIZE)]

\* number of whole sockaddr_dl slots the buffer holds after the header
BufSlots == (RT_BUF_SIZE - HDR_SIZE) \div SDL_SIZE

\* variant: the buffer is not zeroed and still holds the sub-records of an
\* earlier message
rtbuf_stale ==
    LET old(i) == [ZeroSdl EXCEPT !.sdl_len = SDL_SIZE, !.sdl_family = AF_LINK,
                                  !.sdl_index = 90 + i, !.sdl_type = IFT_ETHER,
                                  !.sdl_nlen = 3, !.sdl_alen = 6,
                                  !.sdl_data = <<101, 110, 57, 9, 9, 9, 9, 9, 9,
                                                 0, 0, 0>>]
    IN  [rtm_msglen |-> 0, rtm_version |-> 0, rtm_type |-> 0,
         ifmam_addrs |-> 0, slots |-> [i \in 1..5 |-> old(i)]]

\* rtbuf::new(): every byte zero
rtbuf_new == [rtm_msglen |-> 0, rtm_version |-> 0, rtm_type |-> 0,
              ifmam_addrs |-> 0, slots |-> <<>>]

\* the slot at a zero-based index of the buffer; slots the message did not
\* fill are zero
SlotAt(rt_buf, index) ==
    IF index + 1 <= Len(rt_buf.slots) THEN rt_buf.slots[index + 1] ELSE ZeroSdl

RtmNames == <<"RtmAdd", "RtmDelete", "RtmChange", "RtmGet", "RtmLosing",
              "RtmRedirect", "RtmMiss", "RtmLock", "RtmOldadd", "RtmOlddel",
              "RtmResolve", "RtmNewaddr", "RtmDeladdr", "RtmIfinfo",
              "RtmNewmaddr", "RtmDelmaddr", "RtmGetSilentPrivate",
              "RtmIfinfo2", "RtmNewmaddr2", "RtmGet2", "RtmGetExtPrivate">>

\* From<c_int> for Rtm
Rtm_from(value) ==
    IF value \in DOMAIN RtmNames THEN RtmNames[value] ELSE "RtmInvalid"

\* From<c_int> for Af
Af_from(value) ==
    IF value = 2 THEN "AfInet"
    ELSE IF value = 30 THEN "AfInet6"
    ELSE IF value = AF_LINK THEN "AfLink"
    ELSE "AfInvalid"

\* From<c_int> for Ift
Ift_from(value) ==
    IF value = IFT_ETHER THEN "IftEther"
    ELSE IF value = 24 THEN "IftLoop"
    ELSE "IftInvalid"

None == [tag |-> "None"]

Some(v) == [tag |-> "Some", val |-> v]

Panic == [tag |-> "Panic"]

RECURSIVE Pow2(_)
Pow2(n) == IF n = 0 THEN 1 ELSE 2 * Pow2(n - 1)

\* variant: the index is the kind's own number, absent kinds counted too
get_rta_index_absolute(ifmam_addrs, rta) ==
    LET present == {x \in RTAX_DST..(RTAX_MAX - 1) :
                        BitAnd(ifmam_addrs, Pow2(x)) # 0}
        hits == {x \in present : BitAnd(rta, Pow2(x)) # 0}
    IN  IF hits = {} THEN None
        ELSE Some(CHOOSE x \in hits : \A y \in hits : x <= y)

\* IfMaMsgHdr::get_rta_index: position of rta among the address kinds
\* present in ifmam_addrs, counted from the lowest kind
get_rta_index(ifmam_addrs, rta) ==
    LET present == {x \in RTAX_DST..(RTAX_MAX - 1) :
                        BitAnd(ifmam_addrs, Pow2(x)) # 0}
        hits == {x \in present : BitAnd(rta, Pow2(x)) # 0}
    IN  IF hits = {} THEN None
        ELSE LET first == CHOOSE x \in hits : \A y \in hits : x <= y
             IN  Some(Cardinality({y \in present : y < first}))

\* IfMaMsgHdr::get_rta_buf and get_ifp: the sockaddr_dl slot at that index;
\* split_at panics when the slot does not lie inside the buffer
get_ifp(rt_buf) ==
    LET index == get_rta_index(rt_buf.ifmam_addrs, RTA_IFP)
    IN  IF index.tag = "None" THEN None
        ELSE IF HDR_SIZE + SDL_SIZE * index.val + SDL_SIZE > RT_BUF_SIZE
             THEN Panic
        ELSE Some(SlotAt(rt_buf, index.val))

\* SockaddrDl::get_data: split_at panics when mid exceeds what is left
get_data(sdl) ==
    IF sdl.sdl_nlen > SDL_DATA_SIZE THEN Panic
    ELSE IF sdl.sdl_alen > SDL_DATA_SIZE - sdl.sdl_nlen THEN Panic
    ELSE IF sdl.sdl_slen > SDL_DATA_SIZE - sdl.sdl_nlen - sdl.sdl_alen THEN Panic
    ELSE Some([name |-> SubSeq(sdl.sdl_data, 1, sdl.sdl_nlen),
               addr |-> SubSeq(sdl.sdl_data, sdl.sdl_nlen + 1,
                               sdl.sdl_nlen + sdl.sdl_alen),
               sel |-> SubSeq(sdl.sdl_data, sdl.sdl_nlen + sdl.sdl_alen + 1,
                              sdl.sdl_nlen + sdl.sdl_alen + sdl.sdl_slen)])

RECURSIVE Decimal(_)
Decimal(n) == IF n < 10 THEN <<48 + n>> ELSE Decimal(n \div 10) \o <<48 + (n % 10)>>

\* format!("index{}", sdl_index)
IndexName(index) == <<105, 110, 100, 101, 120>> \o Decimal(index)

\* IfName::try_from(&[c_char]): the embedded name bytes parsed as a name text
IfName_try_from_slice(bytes) == IfName_try_from(bytes)

\* LinkLevelAddress::try_from(&[c_char]): exactly six bytes
LinkLevelAddress_try_from_slice(bytes) ==
    IF Len(bytes) = OCTETS_SIZE THEN [tag |-> "Ok", val |-> bytes]
    ELSE [tag |-> "WrongNumberOfOctets", value |-> bytes]

\* variant: the hardware type is not looked at
get_link_ether_any_type(sdl) ==
    IF Af_from(sdl.sdl_family) # "AfLink"
    THEN None
    ELSE LET d == get_data(sdl)
         IN  IF d.tag = "Panic" THEN Panic
             ELSE LET n1 == IfName_try_from_slice(d.val.name)
                      n2 == IfName_try_from(IndexName(sdl.sdl_index))
                      a == LinkLevelAddress_try_from_slice(d.val.addr)
                  IN  IF n1.tag # "Ok" /\ n2.tag # "Ok" THEN None
                      ELSE IF a.tag # "Ok" THEN None
                      ELSE Some(<<sdl.sdl_index,
                                  IF n1.tag = "Ok" THEN n1.val ELSE n2.val,
                                  a.val>>)

\* variant: a name that does not parse abandons extraction, no fallback
get_link_ether_no_fallback(sdl) ==
    IF Af_from(sdl.sdl_family) # "AfLink" \/ Ift_from(sdl.sdl_type) # "IftEther"
    THEN None
    ELSE LET d == get_data(sdl)
         IN  IF d.tag = "Panic" THEN Panic
             ELSE LET n1 == IfName_try_from_slice(d.val.name)
                      a == LinkLevelAddress_try_from_slice(d.val.addr)
                  IN  IF n1.tag # "Ok" THEN None
                      ELSE IF a.tag # "Ok" THEN None
                      ELSE Some(<<sdl.sdl_index, n1.val, a.val>>)

\* LinkEther::get_link_ether
get_link_ether(sdl) ==
    IF Af_from(sdl.sdl_family) # "AfLink" \/ Ift_from(sdl.sdl_type) # "IftEther"
    THEN None
    ELSE LET d == get_data(sdl)
         IN  IF d.tag = "Panic" THEN Panic
             ELSE LET n1 == IfName_try_from_slice(d.val.name)
                      n2 == IfName_try_from(IndexName(sdl.sdl_index))
                      a == LinkLevelAddress_try_from_slice(d.val.addr)
                  IN  IF n1.tag # "Ok" /\ n2.tag # "Ok" THEN None
                      ELSE IF a.tag # "Ok" THEN None
                      ELSE Some(<<sdl.sdl_index,
                                  IF n1.tag = "Ok" THEN n1.val ELSE n2.val,
                                  a.val>>)

NicNoop == [ev |-> "NicNoop", nic |-> <<>>]

\* rt_buf.as_ifma_msghdr().get_ifp()?.get_link_ether()?
LinkEtherOf(rt_buf) ==
    LET ifp == get_ifp(rt_buf)
    IN  IF ifp.tag # "Some" THEN ifp ELSE get_link_ether(ifp.val)

\* variant: the message version is not looked at
parse_msg_any_version(rt_buf, len) ==
    LET type == Rtm_from(rt_buf.rtm_type)
    IN  IF type = "RtmNewmaddr" THEN
            LET nic == LinkEtherOf(rt_buf)
            IN  IF nic.tag = "Some"
                THEN Some([ev |-> "NicNew", nic |-> nic.val])
                ELSE nic
        ELSE IF type = "RtmDelmaddr" THEN
            LET nic == LinkEtherOf(rt_buf)
            IN  IF nic.tag = "Some"
                THEN Some([ev |-> "NicDel", nic |-> nic.val])
                ELSE nic
        ELSE Some(NicNoop)

\* NicMonitor::parse_msg
parse_msg(rt_buf, len) ==
    IF rt_buf.rtm_version # RTM_VERSION THEN Some(NicNoop)
    ELSE LET type == Rtm_from(rt_buf.rtm_type)
         IN  IF type = "RtmNewmaddr" THEN
                 LET nic == LinkEtherOf(rt_buf)
                 IN  IF nic.tag = "Some"
                     THEN Some([ev |-> "NicNew", nic |-> nic.val])
                     ELSE nic
             ELSE IF type = "RtmDelmaddr" THEN
                 LET nic == LinkEtherOf(rt_buf)
                 IN  IF nic.tag = "Some"
                     THEN Some([ev |-> "NicDel", nic |-> nic.val])
                     ELSE nic
             ELSE Some(NicNoop)

\* read(2) writing the bytes of msg over the start of buf: the header and
\* the slots msg has; the slots after them keep what buf held
Deliver(buf, msg) ==
    LET last == IF Len(buf.slots) > Len(msg.slots) THEN Len(buf.slots)
                ELSE Len(msg.slots)
    IN  [rtm_msglen |-> msg.rtm_msglen, rtm_version |-> msg.rtm_version,
         rtm_type |-> msg.rtm_type, ifmam_addrs |-> msg.ifmam_addrs,
         slots |-> [i \in 1..last |-> IF i <= Len(msg.slots) THEN msg.slots[i]
                                      ELSE buf.slots[i]]]

\* OpenSocket::read on the buffer next() has just made with rtbuf::new():
\* what read(2) returned (n), the bytes it delivered (msg) and the errno it
\* left (e)
OpenSocket_read(n, msg, e) ==
    IF n = 0 THEN [tag |-> "Ok", val |-> [kind |-> "EndOfRead"], buf |-> rtbuf_new]
    ELSE IF n < 0 THEN [tag |-> "Err", val |-> [tag |-> "Read", ret |-> n, errno |-> e],
                        buf |-> rtbuf_new]
    ELSE [tag |-> "Ok", val |-> [kind |-> "ReadLength", len |-> n],
          buf |-> Deliver(rtbuf_new, msg)]

\* variant: a failed read ends the sequence
next_error_ends(n, msg, e) ==
    LET r == OpenSocket_read(n, msg, e)
    IN  IF r.tag = "Err" THEN [item |-> None, reads |-> 1]
        ELSE IF r.val.kind = "EndOfRead" THEN [item |-> None, reads |-> 1]
        ELSE LET event == parse_msg(r.buf, r.val.len)
             IN  IF event.tag = "Panic" THEN [item |-> Panic, reads |-> 1]
                 ELSE IF event.tag = "Some"
                      THEN [item |-> Some([tag |-> "Ok", val |-> event.val]),
                            reads |-> 1]
                 ELSE [item |-> Some([tag |-> "Ok", val |-> NicNoop]), reads |-> 1]

\* Iterator::next for NicMonitor: the item produced and the reads performed
next(n, msg, e) ==
    LET r == OpenSocket_read(n, msg, e)
    IN  IF r.tag = "Err" THEN [item |-> Some([tag |-> "Err", val |-> r.val]), reads |-> 1]
        ELSE IF r.val.kind = "EndOfRead" THEN [item |-> None, reads |-> 1]
        ELSE LET event == parse_msg(r.buf, r.val.len)
             IN  IF event.tag = "Panic" THEN [item |-> Panic, reads |-> 1]
                 ELSE IF event.tag = "Some"
                      THEN [item |-> Some([tag |-> "Ok", val |-> event.val]),
                            reads |-> 1]
                 ELSE [item |-> Some([tag |-> "Ok", val |-> NicNoop]), reads |-> 1]

----------------------------------------------------------------------------
(* Routing monitor: what the kernel may deliver to a read, and next()       *)

MaxCalls == 3

Sdl(family, type, index, nlen, alen, data) ==
    [sdl_len |-> SDL_SIZE, sdl_family |-> family, sdl_index |-> index,
     sdl_type |-> type, sdl_nlen |-> nlen, sdl_alen |-> alen, sdl_slen |-> 0,
     sdl_data |-> [i \in 1..SDL_DATA_SIZE |->
                      IF i <= Len(data) THEN data[i] ELSE 0]]

En1 == <<101, 110, 49>>

Mac == <<1, 2, 3, 4, 5, 6>>

\* name and address lengths with the data bytes: a named Ethernet address, an
\* unnamed one, a short name, a 5-byte address, and lengths that add up to
\* more than the 12 data bytes
Layouts ==
    { [nlen |-> 3, alen |-> 6, data |-> En1 \o Mac],
      [nlen |-> 0, alen |-> 6, data |-> Mac],
      [nlen |-> 2, alen |-> 6, data |-> <<101, 110>> \o Mac],
      [nlen |-> 3, alen |-> 5, data |-> En1 \o Mac],
      [nlen |-> 9, alen |-> 6,
       data |-> <<98, 114, 105, 100, 103, 101, 49, 48, 48>> \o Mac] }

Sdls ==
    { Sdl(f, t, 4, l.nlen, l.alen, l.data) :
        f \in {AF_LINK, 2}, t \in {IFT_ETHER, 24}, l \in Layouts }

\* a message whose slot pos (zero-based) holds sdl, the slots before it zero
Msg(version, type, addrs, pos, sdl) ==
    [rtm_msglen |-> HDR_SIZE + SDL_SIZE * (pos + 1), rtm_version |-> version,
     rtm_type |-> type, ifmam_addrs |-> addrs,
     slots |-> [i \in 1..(pos + 1) |-> IF i = pos + 1 THEN sdl ELSE ZeroSdl]]

GoodSdl == Sdl(AF_LINK, IFT_ETHER, 4, 3, 6, En1 \o Mac)

\* "bridge100": nine name bytes and six address bytes in twelve data bytes
BridgeSdl ==
    Sdl(AF_LINK, IFT_ETHER, 4, 9, 6,
        <<98, 114, 105, 100, 103, 101, 49, 48, 48>> \o Mac)

\* the Ethernet sub-record "en<i>" with link index 10 + i
SlotSdl(i) == Sdl(AF_LINK, IFT_ETHER, 10 + i, 3, 6, <<101, 110, 48 + i>> \o Mac)

\* a message of n slots, slot i (zero-based) holding SlotSdl(i)
MsgSlots(type, addrs, n) ==
    [rtm_msglen |-> HDR_SIZE + SDL_SIZE * n, rtm_version |-> RTM_VERSION,
     rtm_type |-> type, ifmam_addrs |-> addrs,
     slots |-> [i \in 1..n |-> SlotSdl(i - 1)]]

\* address-presence bitmasks holding the interface-pointer kind, with zero to
\* four kinds below it and with kinds above it
Masks == {16, 17, 19, 23, 31, 48}

\* accepted sub-records whose name does not parse (a NUL inside, sixteen
\* bytes long) or whose address is not six bytes long (seven, none)
OddLayouts ==
    { [nlen |-> 3, alen |-> 6, data |-> <<101, 0, 49>> \o Mac],
      [nlen |-> 16, alen |-> 6, data |-> En1 \o Mac],
      [nlen |-> 6, alen |-> 7, data |-> <<117, 116, 117, 110, 49, 50>> \o Mac],
      [nlen |-> 3, alen |-> 0, data |-> En1] }

\* unnamed Ethernet sub-records under the smallest and largest link index
UnnamedSdls == { Sdl(AF_LINK, IFT_ETHER, x, 0, 6, Mac) : x \in {0, 65535} }

\* the messages a read may deliver: every version and type around a named
\* Ethernet address, every bitmask and slot position, every sub-record, other
\* link indexes and names, every sub-record under a foreign version or
\* another message type, every bitmask over distinct slots, and a message
\* cut short before the slot its bitmask points at
Messages ==
    { Msg(v, t, 16, 0, GoodSdl) : v \in {RTM_VERSION, 4}, t \in {15, 16, 14, 99} }
    \cup { Msg(RTM_VERSION, t, a, p, GoodSdl) :
            t \in {15, 16}, a \in {16, 17, 4}, p \in {0, 1} }
    \cup { Msg(RTM_VERSION, 15, 16, 0, s) : s \in Sdls }
    \cup { Msg(RTM_VERSION, 16, 16, 0, s) : s \in {x \in Sdls : x.sdl_nlen = 3} }
    \cup { Msg(RTM_VERSION, t, 16, 0, Sdl(AF_LINK, IFT_ETHER, x, Len(n), 6, n \o Mac)) :
            t \in {15, 16}, x \in {1, 300},
            n \in {<<101, 110, 48>>, <<117, 116, 117, 110, 49, 50>>} }
    \cup { Msg(v, t, 16, 0, BridgeSdl) :
            v \in {RTM_VERSION, 4}, t \in {0, 14, 15, 255} }
    \cup { MsgSlots(15, a, 5) : a \in Masks }
    \cup { MsgSlots(16, 19, 2) }
    \cup { Msg(RTM_VERSION, 15, 16, 0,
               Sdl(AF_LINK, IFT_ETHER, 4, l.nlen, l.alen, l.data)) :
            l \in OddLayouts }
    \cup { Msg(RTM_VERSION, 16, 16, 0, s) : s \in UnnamedSdls }

ReadOutcomes ==
    {[kind |-> "eof", n |-> 0, e |-> 0, msg |-> rtbuf_new]}
    \cup {[kind |-> "err", n |-> -1, e |-> e, msg |-> rtbuf_new] : e \in Errnos}
    \cup {[kind |-> "msg", n |-> m.rtm_msglen, e |-> 0, msg |-> m] : m \in Messages}
    \cup {[kind |-> "msg", n |-> RT_BUF_SIZE, e |-> 0,
           msg |-> Msg(RTM_VERSION, 15, 16, 0, GoodSdl)]}

\* the caller calls next() on the monitor
MonitorNext ==
    /\ mon = "Open"
    /\ calls < MaxCalls
    /\ \E rd \in ReadOutcomes :
        LET o == next(rd.n, rd.msg, rd.e)
        IN  /\ item' = o.item
            /\ reads' = reads + o.reads
            /\ last_read' = rd
            /\ seen_eof' = (seen_eof \/ rd.n = 0)
            /\ mon' = IF o.item.tag = "Panic" THEN "Panicked" ELSE "Open"
    /\ prev_item' = item
    /\ calls' = calls + 1
    /\ UNCHANGED <<chanVars, pureVars, cliVars>>

InitMonitorOnly ==
    /\ box_sys = "LibcSys"
    /\ kv = [n \in Names |-> NoAddr]
    /\ errno = 0
    /\ pc = "idle"
    /\ op = NoOp
    /\ ifreq = ifreq_new
    /\ open_socket = NoSocket
    /\ io_result = NoResult
    /\ result = NoResult
    /\ log = <<>>
    /\ diag = <<>>
    /\ lastOkSet = [n \in Names |-> NoAddr]
    /\ prev = NoPrev
    /\ InitMon
    /\ InitPure

NextMon == MonitorNext

SpecMon == InitMonitorOnly /\ [][NextMon]_vars

\* C8: every next() performs exactly one read; a read of zero bytes makes it
\* produce None and a read of positive length makes it produce one item
\* Some(Ok(event)).
C8_OneReadOneItem ==
    /\ reads = calls
    /\ last_read.kind = "eof" => item = [tag |-> "None"]
    /\ last_read.kind = "msg" =>
        /\ item.tag = "Some"
        /\ item.val.tag = "Ok"

\* C9: once a read has returned zero bytes, every later next() produces None.
C9_EndOfStreamFinal == [][seen_eof => item' = [tag |-> "None"]]_vars

\* C10: a failed read makes next() produce Some(Err(e)) with the read's return
\* value and errno, and the monitor stays usable: the step that follows is a
\* next() that performs a new read; None is produced only for a zero-length
\* read.
C10_ErrorItemInv ==
    /\ last_read.kind = "err" =>
        /\ item = [tag |-> "Some",
                   val |-> [tag |-> "Err",
                            val |-> [tag |-> "Read", ret |-> last_read.n,
                                     errno |-> last_read.e]]]
        /\ mon = "Open"
    /\ item = [tag |-> "None"] => last_read.kind = "eof"

C10_ErrorDoesNotEnd ==
    [] C10_ErrorItemInv
    /\ [][last_read.kind = "err" => (calls' = calls + 1 /\ reads' = reads + 1)]_vars

C10_Witness ==
    /\ prev_item.tag = "Some"
    /\ prev_item.val.tag = "Err"
    /\ item.tag = "Some"
    /\ item.val.tag = "Ok"
    /\ item.val.val.ev = "NicNew"
    /\ item.val.val.nic = <<4, <<101, 110, 49, 0, 0, 0, 0, 0, 0, 0, 0, 0, 0, 0, 0, 0>>,
                            <<1, 2, 3, 4, 5, 6>>>>

----------------------------------------------------------------------------
(* Interface names: a caller parses a text and formats the outcome          *)

MaxTextLen == 17

\* the channel left idle
ChanIdle ==
    /\ box_sys = "LibcSys"
    /\ kv = [n \in Names |-> NoAddr]
    /\ errno = 0
    /\ pc = "idle"
    /\ op = NoOp
    /\ ifreq = ifreq_new
    /\ open_socket = NoSocket
    /\ io_result = NoResult
    /\ result = NoResult
    /\ log = <<>>
    /\ diag = <<>>
    /\ lastOkSet = [n \in Names |-> NoAddr]
    /\ prev = NoPrev

\* "en" and the 15-byte name of the tests, and a two-byte UTF-8 character
NamedTexts ==
    { <<101, 110>>, <<101, 110, 48>>,
      <<48, 49, 50, 51, 52, 53, 54, 55, 56, 57, 65, 66, 67, 68, 69>>,
      <<101, 110, 195, 169>> }

\* texts of every length up to MaxTextLen: letters, a quote or a DEL
\* throughout, and letters with a NUL at the first or the last position
NameInputs ==
    { [i \in 1..l |-> c] : l \in 0..MaxTextLen, c \in {97, 34, 127} }
    \cup UNION { { [i \in 1..l |-> IF i = q THEN 0 ELSE 97] : q \in {1, l} } :
                   l \in 1..MaxTextLen }
    \cup NamedTexts

HasNul(t) == \E i \in 1..Len(t) : t[i] = 0

\* IfName::try_from(text)
IfNameTryFrom ==
    /\ parsed = NoResult
    /\ parsed' = IfName_try_from(str_value)
    /\ UNCHANGED <<str_value, rendered, src_octets>>

\* format!("{}", ifname)
IfNameToString ==
    /\ parsed.tag = "Ok"
    /\ rendered = NoResult
    /\ rendered' = [tag |-> "String", val |-> String_from_IfName(parsed.val)]
    /\ UNCHANGED <<str_value, parsed, src_octets>>

\* format!("{}", error)
IfNameErrorFmt ==
    /\ parsed.tag \in {"TooSmall", "TooLarge", "InvalidCString"}
    /\ rendered = NoResult
    /\ rendered' = [tag |-> "Error", val |-> IfName_Error_fmt(parsed)]
    /\ UNCHANGED <<str_value, parsed, src_octets>>

InitIfName ==
    /\ ChanIdle
    /\ InitMon
    /\ str_value \in NameInputs
    /\ parsed = NoResult
    /\ rendered = NoResult
    /\ src_octets = NoAddr
    /\ ioc_word = NoRequest
    /\ ifr = ifreq_new
    /\ ifr_before = ifreq_new
    /\ ifr_call = NoCall
    /\ NoMain

NextIfName ==
    \/ IfNameTryFrom /\ UNCHANGED <<chanVars, monVars, cliVars, ioc_word, recVars>>
    \/ IfNameToString /\ UNCHANGED <<chanVars, monVars, cliVars, ioc_word, recVars>>
    \/ IfNameErrorFmt /\ UNCHANGED <<chanVars, monVars, cliVars, ioc_word, recVars>>

SpecIfName == InitIfName /\ [][NextIfName]_vars

\* C13: parsing accepts exactly the texts of 1 to capacity-1 bytes without a
\* NUL: TooSmall iff the length is below 1, TooLarge iff the length is at
\* least the capacity, InvalidText iff an in-range text holds a NUL; every
\* accepted name is NUL-terminated inside the buffer.
C13_ParseRanges ==
    parsed # NoResult =>
        LET len == Len(str_value)
        IN  /\ (parsed.tag = "TooSmall") <=> (len < 1)
            /\ (parsed.tag = "TooLarge") <=> (len >= 16)
            /\ (parsed.tag = "InvalidCString") <=>
                    (len >= 1 /\ len < 16 /\ HasNul(str_value))
            /\ (parsed.tag = "Ok") <=> (len >= 1 /\ len < 16 /\ ~HasNul(str_value))
            /\ parsed.tag = "Ok" =>
                    /\ Len(parsed.val) = 16
                    /\ SubSeq(parsed.val, 1, len) = str_value
                    /\ parsed.val[len + 1] = 0

\* C14: a text shorter than 3 bytes (the empty one too) is rejected with
\* TooSmall reporting min 3, a text longer than 15 bytes with TooLarge
\* reporting max 15, whether or not it holds a NUL; a 15-byte text is accepted.
C14_LengthChecksFirst ==
    LET len == Len(str_value)
    IN  /\ parsed # NoResult =>
            /\ len < 3 => parsed = [tag |-> "TooSmall", value |-> str_value]
            /\ len > 15 => parsed = [tag |-> "TooLarge", value |-> str_value]
            /\ (len = 15 /\ ~HasNul(str_value)) =>
                    parsed = [tag |-> "Ok", val |-> str_value \o <<0>>]
        /\ rendered.tag = "Error" =>
            /\ len < 3 =>
                    rendered.val = [struct |-> "IfName::TooSmallError",
                                    value |-> str_value, len |-> len,
                                    bound |-> "min", limit |-> 3]
            /\ len > 15 =>
                    rendered.val = [struct |-> "IfName::TooLargeError",
                                    value |-> str_value, len |-> len,
                                    bound |-> "max", limit |-> 15]

C14_Witness ==
    /\ str_value = <<97, 0>>
    /\ parsed.tag = "TooSmall"
    /\ rendered.tag = "Error"
    /\ rendered.val.limit = 3

\* C15: for every valid name text s, rendering the parsed name gives s back.
C15_RoundTrip ==
    rendered.tag = "String" => rendered.val = str_value

----------------------------------------------------------------------------
(* Classification of routing messages, stated on the message a read         *)
(* delivered and the item next() produced for it                            *)

\* the zero-based slot of the interface-pointer sub-record: the number of
\* address kinds below it that the bitmask announces
IfpSlot(m) ==
    Cardinality({x \in 0..3 : (m.ifmam_addrs \div Pow2(x)) % 2 = 1})

HasIfp(m) == (m.ifmam_addrs \div 16) % 2 = 1

IfpRecord(m) == SlotAt(m, IfpSlot(m))

\* the sub-record is a link-level Ethernet one with a name of at least
\* three bytes without a NUL and a 6-byte address
NamedEther(sdl) ==
    /\ sdl.sdl_family = 18
    /\ sdl.sdl_type = 6
    /\ sdl.sdl_nlen >= 3
    /\ sdl.sdl_nlen <= 12
    /\ sdl.sdl_alen = 6
    /\ \A i \in 1..sdl.sdl_nlen : sdl.sdl_data[i] # 0

EmbeddedName(sdl) ==
    [i \in 1..16 |-> IF i <= sdl.sdl_nlen THEN sdl.sdl_data[i] ELSE 0]

\* the address bytes that lie inside the 12 data bytes of the sub-record
EmbeddedAddress(sdl) ==
    [i \in 1..6 |-> IF sdl.sdl_nlen + i <= 12 THEN sdl.sdl_data[sdl.sdl_nlen + i]
                    ELSE 0]

\* C11: a message of the expected version whose interface-pointer sub-record
\* is link / Ethernet with a valid name n and a 6-byte address a yields
\* New(index, n, a) for type 'new multicast address' (15) and Del(index, n, a)
\* for type 'delete multicast address' (16), index being the sub-record's
\* link index.
C11_NewDelClassified ==
    (/\ last_read.kind = "msg"
     /\ last_read.msg.rtm_version = 5
     /\ last_read.msg.rtm_type \in {15, 16}
     /\ HasIfp(last_read.msg)
     /\ NamedEther(IfpRecord(last_read.msg))) =>
        LET sdl == IfpRecord(last_read.msg)
        IN  /\ item.tag = "Some"
            /\ item.val.tag = "Ok"
            /\ item.val.val.ev = (IF last_read.msg.rtm_type = 15
                                  THEN "NicNew" ELSE "NicDel")
            /\ item.val.val.nic[1] = sdl.sdl_index
            /\ item.val.val.nic[2] = EmbeddedName(sdl)
            /\ sdl.sdl_nlen + 6 <= 12 => item.val.val.nic[3] = EmbeddedAddress(sdl)

\* C12: a message of another version yields Noop whatever its type, and a
\* message of the expected version whose type is neither 15 nor 16 yields
\* Noop; the item is Some(Ok(Noop)), never an Err and never None.
C12_OtherMessagesNoop ==
    (/\ last_read.kind = "msg"
     /\ \/ last_read.msg.rtm_version # 5
        \/ last_read.msg.rtm_type \notin {15, 16}) =>
        /\ item = [tag |-> "Some",
                   val |-> [tag |-> "Ok", val |-> [ev |-> "NicNoop", nic |-> <<>>]]]
        /\ mon = "Open"

C12_Witness ==
    /\ last_read.kind = "msg"
    /\ last_read.msg.rtm_version = 4
    /\ last_read.msg.rtm_type = 15
    /\ last_read.msg.slots[1].sdl_nlen = 9
    /\ item.tag = "Some"
    /\ item.val.val.ev = "NicNoop"
    /\ calls = 2
    /\ prev_item = [tag |-> "Some",
                    val |-> [tag |-> "Ok", val |-> [ev |-> "NicNoop", nic |-> <<>>]]]

----------------------------------------------------------------------------
(* Link-level addresses: a caller formats an address and parses a text      *)

MaxTokens == 8

\* octet values: zero, one digit, both letter digits, the largest
OctetValues == {0, 9, 10, 171, 255}

OctetArrays == [1..6 -> OctetValues]

\* "01" "ff" "FF" "1" "" "zz" "300" "+1" "-1" "001" "0g" "+" "100"
Tokens ==
    { <<48, 49>>, <<102, 102>>, <<70, 70>>, <<49>>, <<>>, <<122, 122>>,
      <<51, 48, 48>>, <<43, 49>>, <<45, 49>>, <<48, 48, 49>>, <<48, 103>>, <<43>>,
      <<49, 48, 48>> }

RECURSIVE Join(_)
Join(tokens) ==
    IF Len(tokens) = 1 THEN tokens[1]
    ELSE tokens[1] \o <<58>> \o Join(Tail(tokens))

\* texts of one to MaxTokens tokens: "01" everywhere but at one position
AddrTexts ==
    UNION { { Join([i \in 1..k |-> IF i = q THEN t ELSE <<48, 49>>]) :
                q \in 1..k, t \in Tokens } : k \in 1..MaxTokens }

\* the letters a..f of a text in upper case
to_uppercase(str) ==
    [i \in 1..Len(str) |-> IF str[i] >= 97 /\ str[i] <= 102 THEN str[i] - 32
                           ELSE str[i]]

\* format!("{}", lladdr); the caller keeps the text or puts it in upper case
LladdrToString ==
    /\ src_octets # NoAddr
    /\ rendered = NoResult
    /\ rendered' = [tag |-> "String", val |-> String_from_LinkLevelAddress(src_octets)]
    /\ \E upper \in BOOLEAN :
          str_value' = IF upper THEN to_uppercase(rendered'.val) ELSE rendered'.val
    /\ UNCHANGED <<parsed, src_octets>>

\* LinkLevelAddress::from_str(text)
LladdrFromStr ==
    /\ parsed = NoResult
    /\ src_octets = NoAddr \/ rendered # NoResult
    /\ parsed' = LinkLevelAddress_from_str(str_value)
    /\ UNCHANGED <<str_value, rendered, src_octets>>

InitLladdr ==
    /\ ChanIdle
    /\ InitMon
    /\ \/ src_octets \in OctetArrays /\ str_value = NoText
       \/ src_octets = NoAddr /\ str_value \in AddrTexts
    /\ parsed = NoResult
    /\ rendered = NoResult
    /\ ioc_word = NoRequest
    /\ ifr = ifreq_new
    /\ ifr_before = ifreq_new
    /\ ifr_call = NoCall
    /\ NoMain

NextLladdr ==
    \/ LladdrToString /\ UNCHANGED <<chanVars, monVars, cliVars, ioc_word, recVars>>
    \/ LladdrFromStr /\ UNCHANGED <<chanVars, monVars, cliVars, ioc_word, recVars>>

SpecLladdr == InitLladdr /\ [][NextLladdr]_vars

HexChars == <<48, 49, 50, 51, 52, 53, 54, 55, 56, 57, 97, 98, 99, 100, 101, 102>>

\* C16: the text of an address is six two-digit, zero-padded, lowercase hex
\* groups separated by colons, and parsing that text, in lower or in upper
\* case, gives the address back.
C16_AddressRoundTrip ==
    /\ (src_octets # NoAddr /\ rendered # NoResult) =>
        /\ Len(rendered.val) = 17
        /\ \A i \in 1..6 :
            /\ rendered.val[3 * i - 2] = HexChars[(src_octets[i] \div 16) + 1]
            /\ rendered.val[3 * i - 1] = HexChars[(src_octets[i] % 16) + 1]
        /\ \A i \in 1..5 : rendered.val[3 * i] = 58
    /\ (src_octets # NoAddr /\ parsed # NoResult) =>
        parsed = [tag |-> "Ok", val |-> src_octets]

C16_Witness ==
    /\ src_octets = <<0, 9, 10, 171, 255, 0>>
    /\ rendered.tag = "String"
    /\ rendered.val = <<48, 48, 58, 48, 57, 58, 48, 97, 58, 97, 98, 58, 102, 102, 58, 48, 48>>
    /\ str_value = <<48, 48, 58, 48, 57, 58, 48, 65, 58, 65, 66, 58, 70, 70, 58, 48, 48>>
    /\ parsed = [tag |-> "Ok", val |-> <<0, 9, 10, 171, 255, 0>>]

\* every colon-separated token of a text
AllTokens(str) == splitn(Len(str) + 1, str)

IsHexChar(c) == (c >= 48 /\ c <= 57) \/ (c >= 97 /\ c <= 102) \/ (c >= 65 /\ c <= 70)

\* a token of exactly two hex digits
TwoDigitHex(t) == Len(t) = 2 /\ IsHexChar(t[1]) /\ IsHexChar(t[2])

\* C17: parsing fails with the wrong-octet-count error whenever the text is
\* not exactly 6 tokens, fails with the invalid-octet error whenever a token
\* is not a 2-digit hex byte, and succeeds only for 6 two-digit hex tokens.
C17_ParseErrors ==
    (src_octets = NoAddr /\ parsed # NoResult) =>
        LET toks == AllTokens(str_value)
            allTwo == \A i \in 1..Len(toks) : TwoDigitHex(toks[i])
        IN  /\ (Len(toks) # 6 /\ allTwo) => parsed.tag = "WrongNumberOfOctets"
            /\ (Len(toks) = 6 /\ ~allTwo) => parsed.tag = "InvalidOctet"
            /\ (Len(toks) # 6 /\ ~allTwo) =>
                    parsed.tag \in {"WrongNumberOfOctets", "InvalidOctet"}
            /\ parsed.tag = "Ok" => (Len(toks) = 6 /\ allTwo)

\* the value of a run of hex digits, from its last digit
RECURSIVE HexValue(_)
HexValue(t) ==
    IF t = <<>> THEN 0
    ELSE 16 * HexValue(SubSeq(t, 1, Len(t) - 1))
         + (CHOOSE d \in 0..15 :
               t[Len(t)] \in {HexChars[d + 1]} \cup
                             (IF d >= 10 THEN {HexChars[d + 1] - 32} ELSE {}))

\* a token that is a hex byte: hex digits, an optional plus sign before them,
\* and a value of at most 0xff
IsHexByte(t) ==
    LET ds == IF t # <<>> /\ t[1] = 43 THEN Tail(t) ELSE t
    IN  /\ ds # <<>>
        /\ \A i \in 1..Len(ds) : IsHexChar(ds[i])
        /\ HexValue(ds) <= 255

\* the pieces the parser looks at: the first five tokens and the rest of the
\* text, unsplit
SixPieces(str) ==
    LET toks == AllTokens(str)
    IN  IF Len(toks) <= 6 THEN toks
        ELSE SubSeq(toks, 1, 5) \o <<Join(SubSeq(toks, 6, Len(toks)))>>

\* C18: an invalid token is reported before the token count is checked: a
\* text of more than 6 tokens fails with the invalid-octet error, which names
\* the unsplit rest of the text as sixth token when the five before it are
\* hex bytes; a text of fewer than 6 tokens with one that is not a hex byte
\* (empty, not hex, above 0xff) fails with the invalid-octet error naming the
\* first such token; the wrong-count error is returned only for fewer than 6
\* tokens that are all hex bytes.
C18_InvalidBeforeCount ==
    (src_octets = NoAddr /\ parsed # NoResult) =>
        LET toks == AllTokens(str_value)
            pieces == SixPieces(str_value)
            bad == {i \in 1..Len(pieces) : ~IsHexByte(pieces[i])}
        IN  /\ Len(toks) > 6 =>
                /\ parsed.tag = "InvalidOctet"
                /\ 6 \in bad
                /\ (\A i \in 1..5 : i \notin bad) =>
                        parsed.octet = Join(SubSeq(toks, 6, Len(toks)))
            /\ bad # {} =>
                /\ parsed.tag = "InvalidOctet"
                /\ parsed.value = str_value
                /\ parsed.octet = pieces[CHOOSE i \in bad : \A j \in bad : i <= j]
            /\ parsed.tag = "WrongNumberOfOctets" =>
                /\ Len(toks) < 6
                /\ bad = {}
                /\ parsed.value_octets = Len(toks)
            /\ (Len(toks) < 6 /\ bad = {}) => parsed.tag = "WrongNumberOfOctets"

\* "01:01:01:01:01:01:01": seven tokens, the sixth piece is "01:01"
C18_Witness ==
    /\ src_octets = NoAddr
    /\ str_value = <<48, 49, 58, 48, 49, 58, 48, 49, 58, 48, 49, 58, 48, 49, 58,
                      48, 49, 58, 48, 49>>
    /\ parsed = [tag |-> "InvalidOctet", value |-> str_value,
                 octet |-> <<48, 49, 58, 48, 49>>, error |-> "InvalidDigit"]

----------------------------------------------------------------------------
(* ioctl command words: the encoder applied to groups, numbers and lengths  *)

\* 'i' and the ends of the character range
Groups == {0, I, 255}

\* the two command numbers in use, and the ends of the range
Nums == {0, 60, 158, 255}

\* lengths below, at and above the 13 bits the word has room for
Lens == {0, IFREQ_SIZE, 8191, 8192, 8192 + IFREQ_SIZE, 16384, 32768 + IFREQ_SIZE, 65535}

Encoded(inout, group, num, len, word) ==
    [inout |-> inout, group |-> group, num |-> num, len |-> len, word |-> word]

Ioc(inout, group, num, len) ==
    /\ ioc_word' = Encoded(inout, group, num, len, ioc(inout, group, num, len))
    /\ UNCHANGED <<chanVars, monVars, cliVars, textVars, recVars>>

Iow(group, num, len) ==
    /\ ioc_word' = Encoded(IOC_IN, group, num, len, iow(group, num, len))
    /\ UNCHANGED <<chanVars, monVars, cliVars, textVars, recVars>>

Iorw(group, num, len) ==
    /\ ioc_word' = Encoded(IOC_INOUT, group, num, len, iorw(group, num, len))
    /\ UNCHANGED <<chanVars, monVars, cliVars, textVars, recVars>>

InitIoc == ChanIdle /\ InitMon /\ InitPure

NextIoc ==
    \/ \E g \in Groups, n \in Nums, l \in Lens : Ioc(IOC_OUT, g, n, l)
    \/ \E g \in Groups, n \in Nums, l \in Lens : Iow(g, n, l)
    \/ \E g \in Groups, n \in Nums, l \in Lens : Iorw(g, n, l)

SpecIoc == InitIoc /\ [][NextIoc]_vars

Bit(x, k) == (x \div Pow2(k)) % 2

Either(a, b) == IF a = 1 \/ b = 1 THEN 1 ELSE 0

\* C19: the command word is direction | ((size & 0x1fff) << 16) |
\* (group << 8) | number in 32 bits, bit by bit; group 'i' with size 32 gives
\* 0xc020699e for in-out number 158 and 0x8020693c for in number 60; the
\* masked size leaves the two direction bits as the direction set them.
C19_CommandWord ==
    /\ SIOCGIFLLADDR = <<49184, 27038>>
    /\ SIOCSIFLLADDR = <<32800, 26940>>
    /\ ioc_word.inout # <<0, 0>> =>
        LET w == ioc_word.word
        IN  /\ w[1] < 65536 /\ w[2] < 65536
            /\ \A k \in 0..7 :
                    Bit(w[2], k) = Either(Bit(ioc_word.inout[2], k), Bit(ioc_word.num, k))
            /\ \A k \in 8..15 :
                    Bit(w[2], k) = Either(Bit(ioc_word.inout[2], k),
                                          Bit(ioc_word.group, k - 8))
            /\ \A k \in 0..12 :
                    Bit(w[1], k) = Either(Bit(ioc_word.inout[1], k), Bit(ioc_word.len, k))
            /\ \A k \in 13..15 : Bit(w[1], k) = Bit(ioc_word.inout[1], k)
            /\ (ioc_word.group = 105 /\ ioc_word.len = 32) =>
                /\ (ioc_word.inout = <<49152, 0>> /\ ioc_word.num = 158) =>
                        w = <<49184, 27038>>
                /\ (ioc_word.inout = <<32768, 0>> /\ ioc_word.num = 60) =>
                        w = <<32800, 26940>>

C19_Witness ==
    /\ ioc_word.inout = <<32768, 0>>
    /\ ioc_word.group = 105
    /\ ioc_word.num = 60
    /\ ioc_word.len = 16384
    /\ ioc_word.word = <<32768, 26940>>

----------------------------------------------------------------------------
(* Interface request records: a caller sets and reads the fields of a       *)
(* record in any state                                                      *)

Filled(n, b) == [i \in 1..n |-> b]

\* name fields: zero, "en0", a 15-byte name, and 16 bytes without a NUL
NameFields ==
    { Zeros(IF_NAME_SIZE),
      IfName_try_from(<<101, 110, 48>>).val,
      IfName_try_from(<<48, 49, 50, 51, 52, 53, 54, 55, 56, 57, 65, 66, 67, 68, 69>>).val,
      Filled(IF_NAME_SIZE, 255) }

DataFields ==
    { Zeros(SA_DATA_SIZE), Filled(SA_DATA_SIZE, 255),
      [i \in 1..SA_DATA_SIZE |-> i] }

\* the states a record may be in when an operation is applied to it
Records ==
    { [ifr_name |-> n, sa_len |-> l, sa_family |-> f, sa_data |-> x] :
        n \in NameFields, l \in {0, 6, 16}, f \in {0, AF_LINK}, x \in DataFields }

\* the names a caller sets: "en0", "en1" and the 15-byte name
NameArgs ==
    Names \cup {IfName_try_from(<<48, 49, 50, 51, 52, 53, 54, 55, 56, 57,
                                   65, 66, 67, 68, 69>>).val}

\* ifreq::new()
IfreqNew ==
    /\ ifr' = ifreq_new
    /\ ifr_before' = ifr
    /\ ifr_call' = [f |-> "new", arg |-> <<>>]

\* ifreq.change_name(&ifname)
IfreqChangeName(n) ==
    /\ ifr' = change_name(ifr, n)
    /\ ifr_before' = ifr
    /\ ifr_call' = [f |-> "change_name", arg |-> n]

\* ifreq.change_lladdr(&lladdr)
IfreqChangeLladdr(a) ==
    /\ ifr' = change_lladdr(ifr, a)
    /\ ifr_before' = ifr
    /\ ifr_call' = [f |-> "change_lladdr", arg |-> a]

InitIfreq ==
    /\ ChanIdle
    /\ InitMon
    /\ str_value = NoText
    /\ parsed = NoResult
    /\ rendered = NoResult
    /\ src_octets = NoAddr
    /\ ioc_word = NoRequest
    /\ ifr \in Records
    /\ ifr_before = ifr
    /\ ifr_call = NoCall
    /\ NoMain

NextIfreq ==
    \/ IfreqNew /\ UNCHANGED <<chanVars, monVars, cliVars, textVars, ioc_word>>
    \/ (\E n \in NameArgs : IfreqChangeName(n))
            /\ UNCHANGED <<chanVars, monVars, cliVars, textVars, ioc_word>>
    \/ (\E a \in Addrs : IfreqChangeLladdr(a))
            /\ UNCHANGED <<chanVars, monVars, cliVars, textVars, ioc_word>>

SpecIfreq == InitIfreq /\ [][NextIfreq]_vars

\* C20: whatever state the record was in, the name read after a name was set
\* is that name and the address bytes are as before; the address read after
\* an address was set is that address and the name field is as before; a new
\* record is all zero.
C20_RecordFields ==
    /\ ifr_call.f = "change_name" =>
        /\ name(ifr) = ifr_call.arg
        /\ ifr.sa_data = ifr_before.sa_data
        /\ lladdr(ifr) = lladdr(ifr_before)
    /\ ifr_call.f = "change_lladdr" =>
        /\ lladdr(ifr) = ifr_call.arg
        /\ ifr.ifr_name = ifr_before.ifr_name
        /\ name(ifr) = name(ifr_before)
    /\ ifr_call.f = "new" =>
        /\ \A i \in 1..16 : ifr.ifr_name[i] = 0
        /\ ifr.sa_len = 0
        /\ ifr.sa_family = 0
        /\ \A i \in 1..14 : ifr.sa_data[i] = 0

C20_Witness ==
    /\ ifr_call.f = "change_name"
    /\ ifr_before.ifr_name = Filled(16, 255)
    /\ ifr_before.sa_data = Filled(14, 255)
    /\ ifr.ifr_name = <<101, 110, 48, 0, 0, 0, 0, 0, 0, 0, 0, 0, 0, 0, 0, 0>>
    /\ ifr.sa_data = Filled(14, 255)

----------------------------------------------------------------------------
(* The ioctl's return value decides the result: socket.rs 130-157, nic.rs 90-102 *)

\* C26: get_lladdr and set_lladdr return Ok exactly when their ioctl returned
\* 0; every nonzero return, a positive one included, comes back as the
\* ioctl error carrying that return value; get_lladdr takes the address from
\* the record only when the ioctl returned 0, and it is then the address the
\* kernel wrote.
C26_OkExactlyOnZero ==
    pc = "done" =>
        \A i \in IoctlIdx :
            /\ (result.tag = "Ok") <=> (log[i].ret = 0)
            /\ log[i].ret # 0 =>
                /\ result.tag = (IF op.f = "get" THEN "GetLinkLevelAddress"
                                 ELSE "SetLinkLevelAddress")
                /\ result.ret = log[i].ret
                /\ "val" \notin DOMAIN result
            /\ (log[i].ret = 0 /\ op.f = "get") => result.val = log[i].wrote
            /\ (log[i].ret = 0 /\ op.f = "set") => result.val = <<>>

C26_Witness ==
    /\ pc = "done"
    /\ op.f = "get"
    /\ \E i \in IoctlIdx : log[i].ret = 1
    /\ result.tag = "GetLinkLevelAddress"
    /\ result.ret = 1

----------------------------------------------------------------------------
(* Address extraction: ifmamsghdr.rs 30-52, sockaddrdl.rs 40-65, nic.rs 41-88 *)

\* the read delivered an address-change message of the expected version
AddressChange ==
    /\ last_read.kind = "msg"
    /\ last_read.msg.rtm_version = 5
    /\ last_read.msg.rtm_type \in {15, 16}

NoopItem ==
    [tag |-> "Some", val |-> [tag |-> "Ok", val |-> [ev |-> "NicNoop", nic |-> <<>>]]]

\* the item is Some(Ok(New(..))) or Some(Ok(Del(..)))
IsEvent(it) ==
    /\ it.tag = "Some"
    /\ it.val.tag = "Ok"
    /\ it.val.val.ev \in {"NicNew", "NicDel"}

\* C22: an address-change message whose interface-pointer sub-record has
\* another family than link (18) or another hardware type than Ethernet (6)
\* yields Some(Ok(Noop)), whatever the sub-record's length fields are, and
\* the monitor stays usable; New and Del are produced only for a sub-record
\* of family link and type Ethernet.
C22_OnlyLinkEtherAccepted ==
    AddressChange =>
        LET sdl == IfpRecord(last_read.msg)
        IN  /\ (/\ HasIfp(last_read.msg)
                /\ (sdl.sdl_family # 18 \/ sdl.sdl_type # 6)) =>
                    (item = NoopItem /\ mon = "Open")
            /\ IsEvent(item) =>
                /\ HasIfp(last_read.msg)
                /\ sdl.sdl_family = 18
                /\ sdl.sdl_type = 6

C22_Witness ==
    /\ AddressChange
    /\ HasIfp(last_read.msg)
    /\ IfpRecord(last_read.msg).sdl_family = 18
    /\ IfpRecord(last_read.msg).sdl_type = 24
    /\ IfpRecord(last_read.msg).sdl_nlen = 9
    /\ item = NoopItem

\* C23: for an address-change message whose bitmask holds the
\* interface-pointer kind (bit 4), the sub-record extraction uses is slot k
\* after the header, k being the number of kinds below bit 4 the bitmask
\* holds: an event reports that slot's link index and address, and a named
\* Ethernet sub-record in that slot is never passed over as Noop.
C23_SubRecordByPosition ==
    (AddressChange /\ HasIfp(last_read.msg)) =>
        LET sdl == SlotAt(last_read.msg, IfpSlot(last_read.msg))
        IN  /\ IsEvent(item) =>
                /\ item.val.val.nic[1] = sdl.sdl_index
                /\ item.val.val.nic[3] = EmbeddedAddress(sdl)
            /\ NamedEther(sdl) => item # NoopItem

C23_Witness ==
    /\ AddressChange
    /\ last_read.msg.ifmam_addrs = 23
    /\ Len(last_read.msg.slots) = 5
    /\ IsEvent(item)
    /\ item.val.val.nic[1] = 13

\* the sub-record is link / Ethernet
Accepted(sdl) == sdl.sdl_family = 18 /\ sdl.sdl_type = 6

\* the embedded name is no interface name: shorter than three bytes (absent,
\* empty), longer than fifteen, or with a NUL among its bytes
NameUnparsable(sdl) ==
    \/ sdl.sdl_nlen < 3
    \/ sdl.sdl_nlen > 15
    \/ \E i \in 1..sdl.sdl_nlen : i <= 12 /\ sdl.sdl_data[i] = 0

\* "index<N>" as the 16 bytes of an interface name
SynthesizedName(index) ==
    LET digits == IF index < 10 THEN 1 ELSE IF index < 100 THEN 2
                  ELSE IF index < 1000 THEN 3 ELSE IF index < 10000 THEN 4 ELSE 5
        unit(k) == CASE k = 0 -> 1 [] k = 1 -> 10 [] k = 2 -> 100
                     [] k = 3 -> 1000 [] OTHER -> 10000
    IN  [i \in 1..16 |->
            IF i <= 5 THEN <<105, 110, 100, 101, 120>>[i]
            ELSE IF i <= 5 + digits
                 THEN 48 + ((index \div unit(digits - (i - 5))) % 10)
            ELSE 0]

\* C24: for an address-change message whose accepted sub-record has an
\* embedded name that does not parse (absent, too short, too long, or with a
\* NUL) and a 6-byte address, the item is New / Del carrying the name
\* "index<N>", N being the sub-record's link index, which is also the index
\* the event reports.
C24_FallbackName ==
    (/\ AddressChange
     /\ HasIfp(last_read.msg)
     /\ Accepted(IfpRecord(last_read.msg))
     /\ NameUnparsable(IfpRecord(last_read.msg))
     /\ IfpRecord(last_read.msg).sdl_alen = 6) =>
        /\ IsEvent(item)
        /\ item.val.val.nic[1] = IfpRecord(last_read.msg).sdl_index
        /\ item.val.val.nic[2] = SynthesizedName(IfpRecord(last_read.msg).sdl_index)

\* C25: an address-change message for which extraction yields nothing (the
\* bitmask lacks the interface-pointer kind, the sub-record is not link /
\* Ethernet, or its address is not six bytes long) makes next() produce
\* Some(Ok(Noop)), and the monitor can be asked for the next item.
C25_NothingExtractedIsNoop ==
    (/\ AddressChange
     /\ \/ ~HasIfp(last_read.msg)
        \/ ~Accepted(IfpRecord(last_read.msg))
        \/ IfpRecord(last_read.msg).sdl_alen # 6) =>
        /\ item = NoopItem
        /\ mon = "Open"

\* C27: whatever message a read delivers, next() returns an item and does
\* not fault: the slot the bitmask points at ends inside the 2048-byte
\* buffer, and the sub-record's length fields, whatever their sum, do not
\* take the slicing of its 12 data bytes out of bounds.
C27_NeverFaults ==
    last_read.kind = "msg" =>
        /\ item.tag = "Some"
        /\ mon = "Open"
        /\ HasIfp(last_read.msg) =>
            16 + 20 * (IfpSlot(last_read.msg) + 1) <= 2048

\* C29: the item next() produces is decided by the bytes its own read
\* delivered into a zeroed buffer: when the message ends before the slot its
\* bitmask points at, that slot is zero and the item is Noop, whatever
\* sub-records earlier messages carried; a next() whose read delivers what
\* the read before it delivered produces the same item again; and the same
\* message produces the same item whatever byte count the read returned.
C29_ZeroPastRead ==
    (/\ AddressChange
     /\ HasIfp(last_read.msg)
     /\ IfpSlot(last_read.msg) >= Len(last_read.msg.slots)) => item = NoopItem

C29_SameBytesSameItem ==
    (/\ calls' = calls + 1
     /\ last_read.kind = "msg"
     /\ last_read'.kind = "msg"
     /\ last_read'.msg = last_read.msg) => item' = item

C29_ItemFromCurrentRead ==
    [] C29_ZeroPastRead
    /\ [][C29_SameBytesSameItem]_vars
    /\ [][(calls' = calls + 1 /\ last_read' = last_read) => item' = item]_vars

\* a two-slot message whose bitmask points at the third slot is read right
\* after a message that filled five slots
C29_Witness ==
    /\ calls >= 2
    /\ IsEvent(prev_item)
    /\ prev_item.val.val.nic[1] = 14
    /\ AddressChange
    /\ last_read.msg.ifmam_addrs = 19
    /\ Len(last_read.msg.slots) = 2
    /\ item = NoopItem

----------------------------------------------------------------------------
(* The synthesized name: sockaddrdl.rs 46-63, ifname.rs 4-6, 93-110 *)

\* the largest link index: sdl_index is a c_ushort
MaxIndex == 65535

\* accepted sub-records, named and not, under small and large link indexes
AcceptedSdls ==
    { Sdl(AF_LINK, IFT_ETHER, x, l.nlen, l.alen, l.data) :
        x \in {0, 4, MaxIndex}, l \in Layouts \cup OddLayouts }

\* format!("index{}", self.sdl_index)
FormatIndex ==
    /\ rendered.tag = "Index"
    /\ str_value = NoText
    /\ str_value' = IndexName(rendered.index)
    /\ UNCHANGED <<parsed, rendered, src_octets>>

\* IfName::try_from(format!("index{}", self.sdl_index))
IndexNameTryFrom ==
    /\ rendered.tag = "Index"
    /\ str_value # NoText
    /\ parsed = NoResult
    /\ parsed' = IfName_try_from(str_value)
    /\ UNCHANGED <<str_value, rendered, src_octets>>

\* sdl.get_link_ether()
GetLinkEther ==
    /\ rendered.tag = "Sdl"
    /\ parsed = NoResult
    /\ parsed' = [tag |-> "Returned", val |-> get_link_ether(rendered.sdl)]
    /\ UNCHANGED <<str_value, rendered, src_octets>>

InitIndexName ==
    /\ ChanIdle
    /\ InitMon
    /\ str_value = NoText
    /\ parsed = NoResult
    /\ \/ \E x \in 0..MaxIndex : rendered = [tag |-> "Index", index |-> x]
       \/ \E sdl \in AcceptedSdls : rendered = [tag |-> "Sdl", sdl |-> sdl]
    /\ src_octets = NoAddr
    /\ ioc_word = NoRequest
    /\ ifr = ifreq_new
    /\ ifr_before = ifreq_new
    /\ ifr_call = NoCall
    /\ NoMain

NextIndexName ==
    \/ FormatIndex /\ UNCHANGED <<chanVars, monVars, cliVars, ioc_word, recVars>>
    \/ IndexNameTryFrom /\ UNCHANGED <<chanVars, monVars, cliVars, ioc_word, recVars>>
    \/ GetLinkEther /\ UNCHANGED <<chanVars, monVars, cliVars, ioc_word, recVars>>

SpecIndexName == InitIndexName /\ [][NextIndexName]_vars

\* C28: for every link index N from 0 to 65535 the text "index<N>" has 6 to
\* 10 bytes, none of them NUL, and parses as the interface name made of
\* these bytes; and when get_link_ether returns nothing for a link /
\* Ethernet sub-record, the sub-record's address is not six bytes long: the
\* name never is the reason.
C28_IndexNameValid ==
    /\ (rendered.tag = "Index" /\ parsed # NoResult) =>
        /\ Len(str_value) >= 3
        /\ Len(str_value) <= 15
        /\ \A i \in 1..Len(str_value) : str_value[i] # 0
        /\ parsed = [tag |-> "Ok", val |-> SynthesizedName(rendered.index)]
    /\ (rendered.tag = "Sdl" /\ parsed = [tag |-> "Returned", val |-> [tag |-> "None"]]) =>
        rendered.sdl.sdl_alen # 6

C28_Witness ==
    /\ rendered.tag = "Index"
    /\ rendered.index = 65535
    /\ str_value = <<105, 110, 100, 101, 120, 54, 53, 53, 51, 53>>
    /\ parsed.tag = "Ok"

\* an unnamed sub-record under the largest index is extracted with the
\* synthesized name
C28_WitnessUnnamed ==
    /\ rendered.tag = "Sdl"
    /\ rendered.sdl.sdl_index = 65535
    /\ rendered.sdl.sdl_nlen = 0
    /\ parsed.tag = "Returned"
    /\ parsed.val.tag = "Some"
    /\ parsed.val.val[2] = SynthesizedName(65535)

----------------------------------------------------------------------------
(* The command line: nic-roaming/src/main.rs *)

GetText == <<103, 101, 116>>                            \* "get"

SetText == <<115, 101, 116>>                            \* "set"

MonitorText == <<109, 111, 110, 105, 116, 111, 114>>    \* "monitor"

\* interface-name arguments: absent, "en0", "en1", "en", sixteen letters,
\* and a text with a NUL inside
CliNames ==
    {NoArg} \cup {Some(t) : t \in NameTexts}
    \cup {Some(<<101, 110>>), Some([i \in 1..16 |-> 97]), Some(<<101, 0, 49>>)}

\* address arguments: absent, two well-formed texts, a text of five tokens
\* ("00:11:22:33:44") and one with a token that is no hex byte
\* ("zz:11:22:33:44:55")
CliAddrs ==
    {NoArg} \cup {Some(String_from_LinkLevelAddress(a)) : a \in Addrs}
    \cup {Some(<<48, 48, 58, 49, 49, 58, 50, 50, 58, 51, 51, 58, 52, 52>>),
          Some(<<122, 122, 58, 49, 49, 58, 50, 50, 58, 51, 51, 58, 52, 52, 58,
                 53, 53>>)}

\* the command lines main may be started with
CliArgs ==
    {[action |-> NoArg, ifname |-> NoArg, lladdr |-> NoArg],
     [action |-> Some(<<98, 111, 103, 117, 115>>), ifname |-> NoArg, lladdr |-> NoArg],
     [action |-> Some(MonitorText), ifname |-> NoArg, lladdr |-> NoArg]}
    \cup {[action |-> Some(GetText), ifname |-> n, lladdr |-> NoArg] : n \in CliNames}
    \cup {[action |-> Some(SetText), ifname |-> n, lladdr |-> a] :
            n \in CliNames, a \in CliAddrs}

\* what the monitor's socket delivers to the command: end of stream, a
\* failed read, New, Del and Noop messages, and the "bridge100" sub-record
CliReads ==
    {[kind |-> "eof", n |-> 0, e |-> 0, msg |-> rtbuf_new],
     [kind |-> "err", n |-> -1, e |-> EPERM, msg |-> rtbuf_new]}
    \cup {[kind |-> "msg", n |-> m.rtm_msglen, e |-> 0, msg |-> m] :
            m \in {Msg(RTM_VERSION, 15, 16, 0, GoodSdl),
                   Msg(RTM_VERSION, 16, 16, 0, GoodSdl),
                   Msg(RTM_VERSION, 14, 16, 0, GoodSdl),
                   Msg(RTM_VERSION, 15, 16, 0, BridgeSdl)}}

\* a `?` or `return Err(..)` in main: main returns the error
MainFails(error) ==
    /\ main_pc' = "exited"
    /\ main_ret' = [tag |-> "Err", val |-> error]
    /\ UNCHANGED <<args, stderr, chanVars>>

\* the action argument is absent or names no action
MainNoAction ==
    /\ main_pc = "start"
    /\ IF args.action.tag = "None"
       THEN MainFails([tag |-> "Message",
                       text |-> "Missing action param: [get | set]"])
       ELSE /\ args.action.val \notin {GetText, SetText, MonitorText}
            /\ MainFails([tag |-> "Message", text |-> "Invalid action: ",
                          invalid |-> args.action.val])
    /\ UNCHANGED monVars

\* variant: the name is copied into the name buffer unchecked, cut to 15 bytes
MainGet_unchecked ==
    /\ main_pc = "start"
    /\ args.action = Some(GetText)
    /\ IF args.ifname.tag = "None"
       THEN MainFails([tag |-> "Message", text |-> "Missing ifname param"])
       ELSE LET t == args.ifname.val
                n == [i \in 1..IF_NAME_SIZE |->
                         IF i <= Len(t) /\ i <= IF_NAME_MAX THEN t[i] ELSE 0]
            IN  /\ GetLladdrCall(n)
                /\ main_pc' = "call"
                /\ UNCHANGED <<args, main_ret, stderr>>
    /\ UNCHANGED monVars

\* "get": the name is parsed, then nic::get_lladdr(&ifname) is entered
MainGet ==
    /\ main_pc = "start"
    /\ args.action = Some(GetText)
    /\ IF args.ifname.tag = "None"
       THEN MainFails([tag |-> "Message", text |-> "Missing ifname param"])
       ELSE LET ifname == IfName_try_from(args.ifname.val)
            IN  IF ifname.tag # "Ok" THEN MainFails(ifname)
                ELSE /\ GetLladdrCall(ifname.val)
                     /\ main_pc' = "call"
                     /\ UNCHANGED <<args, main_ret, stderr>>
    /\ UNCHANGED monVars

\* "set": the name is parsed, then the address, then
\* nic::set_lladdr(&ifname, &lladdr) is entered
MainSet ==
    /\ main_pc = "start"
    /\ args.action = Some(SetText)
    /\ IF args.ifname.tag = "None"
       THEN MainFails([tag |-> "Message", text |-> "Missing ifname param"])
       ELSE LET ifname == IfName_try_from(args.ifname.val)
            IN  IF ifname.tag # "Ok" THEN MainFails(ifname)
                ELSE IF args.lladdr.tag = "None"
                THEN MainFails([tag |-> "Message", text |-> "Missing lladdr param"])
                ELSE LET a == LinkLevelAddress_from_str(args.lladdr.val)
                     IN  IF a.tag # "Ok" THEN MainFails(a)
                         ELSE /\ SetLladdrCall(ifname.val, a.val)
                              /\ main_pc' = "call"
                              /\ UNCHANGED <<args, main_ret, stderr>>
    /\ UNCHANGED monVars

\* nic::get_lladdr / nic::set_lladdr has returned: `?`, then eprintln!
MainCallReturns ==
    /\ main_pc = "call"
    /\ pc = "done"
    /\ main_pc' = "exited"
    /\ IF result.tag = "Ok"
       THEN /\ main_ret' = OkUnit
            /\ stderr' = Append(stderr,
                   IF op.f = "get"
                   THEN [fn |-> "nic::get_lladdr",
                         ifname |-> String_from_IfName(op.ifname),
                         lladdr |-> String_from_LinkLevelAddress(result.val)]
                   ELSE [fn |-> "nic::set_lladdr",
                         ifname |-> String_from_IfName(op.ifname),
                         lladdr |-> String_from_LinkLevelAddress(op.lladdr)])
       ELSE /\ main_ret' = [tag |-> "Err", val |-> result]
            /\ stderr' = stderr
    /\ UNCHANGED <<args, chanVars, monVars>>

\* socket::open_route_raw(): the routing socket, or the error of a failed
\* socket call
open_route_raw(fd, e) ==
    IF fd >= 0 THEN [tag |-> "Ok", val |-> fd]
    ELSE [tag |-> "OpenRouteRaw", ret |-> fd, errno |-> e]

\* "monitor": nic::monitor()?
MainMonitor ==
    /\ main_pc = "start"
    /\ args.action = Some(MonitorText)
    /\ \E fd \in {-1, 3}, e \in Errnos :
        LET socket == open_route_raw(fd, e)
        IN  IF socket.tag = "Ok"
            THEN /\ main_pc' = "loop"
                 /\ UNCHANGED <<args, main_ret, stderr, chanVars>>
            ELSE MainFails(socket)
    /\ UNCHANGED monVars

\* the line main prints for a New or Del event
EventLine(event) ==
    [fn |-> event.ev, link |-> event.nic[1],
     ifname |-> String_from_IfName(event.nic[2]),
     lladdr |-> String_from_LinkLevelAddress(event.nic[3])]

\* variant: an Err item is skipped and the loop goes on
MainMonitorNext_skips_errors ==
    /\ main_pc = "loop"
    /\ mon = "Open"
    /\ calls < MaxCalls
    /\ \E rd \in CliReads :
        LET o == next(rd.n, rd.msg, rd.e)
        IN  /\ item' = o.item
            /\ reads' = reads + o.reads
            /\ last_read' = rd
            /\ seen_eof' = (seen_eof \/ rd.n = 0)
            /\ mon' = IF o.item.tag = "Panic" THEN "Panicked" ELSE "Open"
            /\ IF o.item.tag = "Panic"
               THEN main_pc' = "panicked" /\ UNCHANGED <<main_ret, stderr>>
               ELSE IF o.item.tag = "None"
               THEN main_pc' = "exited" /\ main_ret' = OkUnit /\ stderr' = stderr
               ELSE IF o.item.val.tag = "Err"
               THEN UNCHANGED <<main_pc, main_ret, stderr>>
               ELSE /\ UNCHANGED <<main_pc, main_ret>>
                    /\ stderr' = IF o.item.val.val.ev = "NicNoop" THEN stderr
                                 ELSE Append(stderr, EventLine(o.item.val.val))
    /\ prev_item' = item
    /\ calls' = calls + 1
    /\ UNCHANGED <<args, chanVars>>

\* one turn of `for event in monitor { match event? { .. } }`: next() is
\* called; None ends the loop, an Err item is returned from main, New and
\* Del are printed, Noop is passed over; a fault in next() unwinds main
MainMonitorNext ==
    /\ main_pc = "loop"
    /\ mon = "Open"
    /\ calls < MaxCalls
    /\ \E rd \in CliReads :
        LET o == next(rd.n, rd.msg, rd.e)
        IN  /\ item' = o.item
            /\ reads' = reads + o.reads
            /\ last_read' = rd
            /\ seen_eof' = (seen_eof \/ rd.n = 0)
            /\ mon' = IF o.item.tag = "Panic" THEN "Panicked" ELSE "Open"
            /\ IF o.item.tag = "Panic"
               THEN main_pc' = "panicked" /\ UNCHANGED <<main_ret, stderr>>
               ELSE IF o.item.tag = "None"
               THEN main_pc' = "exited" /\ main_ret' = OkUnit /\ stderr' = stderr
               ELSE IF o.item.val.tag = "Err"
               THEN /\ main_pc' = "exited"
                    /\ main_ret' = [tag |-> "Err", val |-> o.item.val.val]
                    /\ stderr' = stderr
               ELSE /\ UNCHANGED <<main_pc, main_ret>>
                    /\ stderr' = IF o.item.val.val.ev = "NicNoop" THEN stderr
                                 ELSE Append(stderr, EventLine(o.item.val.val))
    /\ prev_item' = item
    /\ calls' = calls + 1
    /\ UNCHANGED <<args, chanVars>>

\* the process is started with a command line; the monitor command is
\* followed under one kernel
InitCli ==
    /\ InitChan
    /\ InitMon
    /\ str_value = NoText
    /\ parsed = NoResult
    /\ rendered = NoResult
    /\ src_octets = NoAddr
    /\ ioc_word = NoRequest
    /\ ifr = ifreq_new
    /\ ifr_before = ifreq_new
    /\ ifr_call = NoCall
    /\ args \in CliArgs
    /\ args.action = Some(MonitorText) =>
        (box_sys = "LibcSys" /\ kv = [n \in Names |-> NoAddr])
    /\ main_pc = "start"
    /\ main_ret = NoResult
    /\ stderr = <<>>

NextCli ==
    \/ MainNoAction /\ UNCHANGED pureVars
    \/ MainGet /\ UNCHANGED pureVars
    \/ MainSet /\ UNCHANGED pureVars
    \/ MainMonitor /\ UNCHANGED pureVars
    \/ OpenLocalDgram /\ UNCHANGED <<monVars, pureVars, cliVars>>
    \/ OpenSocketGetLladdr /\ UNCHANGED <<monVars, pureVars, cliVars>>
    \/ OpenSocketSetLladdr /\ UNCHANGED <<monVars, pureVars, cliVars>>
    \/ Drop /\ UNCHANGED <<monVars, pureVars, cliVars>>
    \/ MainCallReturns /\ UNCHANGED pureVars
    \/ MainMonitorNext /\ UNCHANGED pureVars

SpecCli == InitCli /\ [][NextCli]_vars

\* the name argument is an interface name: 3 to 15 bytes, none of them NUL
ValidNameArg ==
    /\ args.ifname.tag = "Some"
    /\ Len(args.ifname.val) >= 3
    /\ Len(args.ifname.val) <= 15
    /\ ~HasNul(args.ifname.val)

\* the address argument is six hex bytes separated by colons
ValidAddrArg ==
    /\ args.lladdr.tag = "Some"
    /\ Len(SixPieces(args.lladdr.val)) = 6
    /\ \A i \in 1..6 : IsHexByte(SixPieces(args.lladdr.val)[i])

\* a get or set command whose name or (for set) address argument is absent
\* or invalid
InvalidGetSet ==
    \/ args.action = Some(GetText) /\ ~ValidNameArg
    \/ args.action = Some(SetText) /\ ~(ValidNameArg /\ ValidAddrArg)

\* main has returned the error of the first argument that failed
ValidationErrorReturned ==
    /\ main_ret.tag = "Err"
    /\ IF args.ifname.tag = "None"
       THEN main_ret.val = [tag |-> "Message", text |-> "Missing ifname param"]
       ELSE IF ~ValidNameArg
       THEN /\ main_ret.val.tag \in {"TooSmall", "TooLarge", "InvalidCString"}
            /\ main_ret.val.value = args.ifname.val
       ELSE IF args.lladdr.tag = "None"
       THEN main_ret.val = [tag |-> "Message", text |-> "Missing lladdr param"]
       ELSE /\ main_ret.val.tag \in {"InvalidOctet", "WrongNumberOfOctets"}
            /\ main_ret.val.value = args.lladdr.val

C21_NoKernelCallYet ==
    InvalidGetSet =>
        /\ log = <<>>
        /\ pc = "idle"
        /\ open_socket = NoSocket
        /\ main_pc \in {"start", "exited"}
        /\ main_pc = "exited" => ValidationErrorReturned

\* C21: a get or set command whose name or address argument is invalid makes
\* no Sys call at all (no socket, no ioctl), never enters nic::get_lladdr /
\* set_lladdr, leaves every interface address as it was, and returns the
\* validation error of the first invalid argument; and whenever a Sys call
\* has been made, the arguments were valid.
C21_ValidatedBeforeKernel ==
    /\ [] C21_NoKernelCallYet
    /\ [][InvalidGetSet => kv' = kv]_vars
    /\ [] ((args.action \in {Some(GetText), Some(SetText)} /\ log # <<>>) =>
            (ValidNameArg /\ (args.action = Some(SetText) => ValidAddrArg)))

C21_Witness ==
    /\ args.action = Some(SetText)
    /\ args.ifname = Some(<<101, 110, 48>>)
    /\ args.lladdr.tag = "Some"
    /\ Len(SixPieces(args.lladdr.val)) = 5
    /\ main_pc = "exited"
    /\ main_ret.tag = "Err"
    /\ main_ret.val.tag = "WrongNumberOfOctets"
    /\ log = <<>>
    /\ kv[IfName_try_from(<<101, 110, 48>>).val] = <<0, 17, 34, 51, 68, 85>>

ErrItem(it) == it.tag = "Some" /\ it.val.tag = "Err"

C30_LoopInv ==
    args.action = Some(MonitorText) =>
        /\ ErrItem(item) =>
            /\ main_pc = "exited"
            /\ main_ret = [tag |-> "Err", val |-> item.val.val]
        /\ (item.tag = "Some" /\ item.val.tag = "Ok") => main_pc = "loop"
        /\ (main_pc = "exited" /\ calls > 0) =>
            \/ ErrItem(item)
            \/ item = [tag |-> "None"] /\ main_ret = OkUnit
        /\ \A i \in 1..Len(stderr) : stderr[i].fn \in {"NicNew", "NicDel"}

====
